---- MODULE Spec2Model ----
(***************************************************************************)
(* Command Repository of the "see" command bookmark manager                *)
(* (src/src/manager.py over src/storage.py).                               *)
(*                                                                         *)
(* Text (command, description, tag, alias) is a sequence of one-character  *)
(* strings, so that strip() and startswith() are computed.  An optional    *)
(* value is None (absent / Python None) or Some(v).  The commands file is  *)
(* absent, holds bytes that are no text, text that is no JSON, or a JSON   *)
(* document.  Two process invocations share the file: the one that runs    *)
(* (commands) and one that waits (peer).                                   *)
(***************************************************************************)
EXTENDS Integers, Sequences, FiniteSets, TLC

VARIABLES
    commands,   \* CommandManager.commands: the in-memory list of command dicts
    disk,       \* the commands file (CommandStorage.commands_file)
    proc,       \* where the running process is: "constructed", "ready", "failed"
    peer,       \* CommandManager.commands of the process that waits
    tui,        \* the interactive selector: its list, its locals, its position
    now,        \* the clock read by datetime.now()
    issued,     \* history: every id given to a newly created command so far
    last        \* the last call or event: its arguments and its outcome

vars == <<commands, disk, proc, peer, tui, now, issued, last>>

(* ------------------------------ bounds -------------------------------- *)

\* ids above MaxId are not created (guard of a fresh add)
MaxId == 3
\* used_count is not incremented beyond MaxUsed (guard of increment_usage)
MaxUsed == 1
\* the clock stops ticking at MaxClock
MaxClock == 1
\* used_count where the statistics are checked (SpecStats)
MaxStatsUsed == 2
\* the pieces a command text for substitute is put together from
MaxPieces == 2
\* the longest list handed to the selector
MaxRows == 6
\* the tallest terminal
MaxHeight == 11

(* ----------------------------- constants ------------------------------ *)

\* get_stats: the length of the most-used list, [:5]
TopN == 5
\* _run_tui: the rows of the preview box
preview_height == 4

(* --------------------------- optional values -------------------------- *)

None == <<>>

Some(v) == <<v>>

IsSome(o) == o # None

Val(o) == o[1]

(* -------------------------------- text -------------------------------- *)

\* the characters str.strip() removes that occur in the inputs
Whitespace == {" ", "\t"}

RECURSIVE LStrip(_)
LStrip(s) ==
    IF s # <<>> /\ Head(s) \in Whitespace THEN LStrip(Tail(s)) ELSE s

RECURSIVE RStrip(_)
RStrip(s) ==
    IF s # <<>> /\ s[Len(s)] \in Whitespace
    THEN RStrip(SubSeq(s, 1, Len(s) - 1))
    ELSE s

\* str.strip()
Strip(s) == RStrip(LStrip(s))

\* str.startswith(p)
StartsWith(s, p) == Len(s) >= Len(p) /\ SubSeq(s, 1, Len(p)) = p

\* code points of the characters that occur in tags
Ord(c) ==
    CASE c = "A" -> 65
      [] c = "B" -> 66
      [] c = "a" -> 97
      [] c = "b" -> 98
      [] c = "c" -> 99

\* s < t for Python str: lexicographic by code point
RECURSIVE StrLess(_, _)
StrLess(s, t) ==
    IF t = <<>> THEN FALSE
    ELSE IF s = <<>> THEN TRUE
    ELSE IF Head(s) = Head(t) THEN StrLess(Tail(s), Tail(t))
    ELSE Ord(Head(s)) < Ord(Head(t))

\* set(xs) for a list xs
ToSet(xs) == {xs[i] : i \in DOMAIN xs}

\* sorted(list(S)) for a set S of str
RECURSIVE SortedList(_)
SortedList(S) ==
    IF S = {} THEN <<>>
    ELSE LET m == CHOOSE x \in S : \A y \in S \ {x} : StrLess(x, y)
         IN  <<m>> \o SortedList(S \ {m})

(* ------------------------- validate_alias ----------------------------- *)

RESERVED_KEYWORDS == {
    <<"s", "e", "a", "r", "c", "h">>, <<"l", "i", "s", "t">>, <<"s", "h", "o", "w">>,
    <<"r", "u", "n">>, <<"d", "e", "l", "e", "t", "e">>, <<"e", "d", "i", "t">>,
    <<"s", "t", "a", "t", "s">>, <<"i", "n", "s", "t", "a", "l", "l">>,
    <<"i", "m", "p", "o", "r", "t">>, <<"t", "a", "g", "s">>,
    <<"i", "n", "t", "e", "r", "a", "c", "t", "i", "v", "e">>, <<"i">>,
    <<"a", "l", "i", "a", "s">>, <<"h", "e", "l", "p">>, <<"s", "e", "e">>, <<"a", "d", "d">>,
    <<"c", "d">>, <<"e", "x", "i", "t">>, <<"l", "o", "g", "o", "u", "t">>, <<"p", "w", "d">>,
    <<"c", "l", "e", "a", "r">>, <<"h", "i", "s", "t", "o", "r", "y">>, <<"t", "y", "p", "e">>,
    <<"u", "n", "a", "l", "i", "a", "s">>, <<"e", "x", "p", "o", "r", "t">>,
    <<"u", "n", "s", "e", "t">>, <<"s", "e", "t">>, <<"e", "n", "v">>,
    <<"s", "o", "u", "r", "c", "e">>, <<".">>, <<"l", "s">>, <<"c", "p">>, <<"m", "v">>,
    <<"r", "m">>, <<"m", "k", "d", "i", "r">>, <<"g", "r", "e", "p">>, <<"c", "a", "t">>,
    <<"e", "c", "h", "o">>, <<"m", "a", "n">>, <<"s", "u", "d", "o">>,
    <<"w", "h", "i", "c", "h">>, <<"w", "h", "o", "a", "m", "i">>, <<"t", "r", "u", "e">>,
    <<"f", "a", "l", "s", "e">>, <<"t", "e", "s", "t">>
}

\* get_by_alias: the position of the first command holding the alias, 0 for None
get_by_alias(cmds, alias) ==
    IF alias = <<>> THEN 0
    ELSE LET hits == {i \in DOMAIN cmds : cmds[i].alias = Some(alias)}
         IN  IF hits = {} THEN 0 ELSE CHOOSE i \in hits : \A j \in hits : i <= j

\* validate_alias without lines 99-102: the alias is not looked up
validate_alias_unchecked(cmds, alias, current_cmd_id) ==
    IF alias = <<>> THEN "ok"
    ELSE IF StartsWith(alias, <<"-">>) THEN "starts_with_dash"
    ELSE IF alias \in RESERVED_KEYWORDS THEN "reserved"
    ELSE "ok"

\* validate_alias: "ok" when it returns, else the ValueError it raises
validate_alias(cmds, alias, current_cmd_id) ==
    IF alias = <<>> THEN "ok"
    ELSE IF StartsWith(alias, <<"-">>) THEN "starts_with_dash"
    ELSE IF alias \in RESERVED_KEYWORDS THEN "reserved"
    ELSE LET existing == get_by_alias(cmds, alias)
         IN  IF existing # 0 /\ cmds[existing].id # current_cmd_id
             THEN "in_use"
             ELSE "ok"

(* ----------------------------- lookups -------------------------------- *)

\* _find_by_command: the position of the first command with that text, 0 for None
find_by_command(cmds, command_str) ==
    LET hits == {i \in DOMAIN cmds : Strip(cmds[i].command) = command_str}
    IN  IF hits = {} THEN 0 ELSE CHOOSE i \in hits : \A j \in hits : i <= j

\* max(cmd['id'] for cmd in commands)
MaxIdOf(cmds) ==
    CHOOSE m \in {cmds[i].id : i \in DOMAIN cmds} :
        \A i \in DOMAIN cmds : cmds[i].id <= m

\* _get_next_id that counts the commands
get_next_id_by_count(cmds) == Len(cmds) + 1

\* _get_next_id
get_next_id(cmds) == IF cmds = <<>> THEN 1 ELSE MaxIdOf(cmds) + 1

\* get: the position of the first command with that id, 0 for None
get(cmds, cmd_id) ==
    LET hits == {i \in DOMAIN cmds : cmds[i].id = cmd_id}
    IN  IF hits = {} THEN 0 ELSE CHOOSE i \in hits : \A j \in hits : i <= j

(* -------------------------------- add --------------------------------- *)

\* add, existing command: "Update alias if provided"
MergeAlias(existing, alias) ==
    IF IsSome(alias) /\ Val(alias) # <<>> /\ existing.alias # alias
    THEN [cmd |-> [existing EXCEPT !.alias = alias], updated |-> TRUE]
    ELSE [cmd |-> existing, updated |-> FALSE]

\* "Merge tags" that keeps the new tags alone
MergeTagsReplace(existing, tags) ==
    IF ~(ToSet(tags) \subseteq ToSet(existing.tags))
    THEN [cmd |-> [existing EXCEPT !.tags = SortedList(ToSet(tags))],
          merged_tags |-> TRUE]
    ELSE [cmd |-> existing, merged_tags |-> FALSE]

\* add, existing command: "Merge tags"
MergeTags(existing, tags) ==
    IF ~(ToSet(tags) \subseteq ToSet(existing.tags))
    THEN [cmd |-> [existing EXCEPT
                     !.tags = SortedList(ToSet(existing.tags) \cup ToSet(tags))],
          merged_tags |-> TRUE]
    ELSE [cmd |-> existing, merged_tags |-> FALSE]

\* the merging branch with a save that is not under "if updated:"
AddExistingAlwaysSaves(cmds, i, tags, alias) ==
    LET a == MergeAlias(cmds[i], alias)
        t == MergeTags(a.cmd, tags)
        updated == a.updated \/ t.merged_tags
    IN  [commands    |-> [cmds EXCEPT ![i] = t.cmd],
         error       |-> "ok",
         saved       |-> 1,
         ret         |-> Some(t.cmd),
         updated     |-> Some(updated),
         merged_tags |-> Some(t.merged_tags)]

\* add, the branch taken when _find_by_command finds the command at position i
AddExisting(cmds, i, tags, alias) ==
    LET a == MergeAlias(cmds[i], alias)
        t == MergeTags(a.cmd, tags)
        updated == a.updated \/ t.merged_tags
    IN  [commands    |-> [cmds EXCEPT ![i] = t.cmd],
         error       |-> "ok",
         saved       |-> IF updated THEN 1 ELSE 0,
         ret         |-> Some(t.cmd),
         updated     |-> Some(updated),
         merged_tags |-> Some(t.merged_tags)]

\* add: the dict built for a command that is not there yet
NewCommand(cmds, command, description, tags, alias, t) ==
    [id           |-> get_next_id(cmds),
     command      |-> command,
     description  |-> description,
     tags         |-> tags,
     alias        |-> alias,
     created_at   |-> t,
     used_count   |-> 0,
     last_used_at |-> None]

\* add with lines 66-67 after line 69: the command is appended, then validated
AddNewAppendFirst(cmds, command, description, tags, alias, t) ==
    LET new_command == NewCommand(cmds, command, description, tags, alias, t)
        error == IF IsSome(alias) /\ Val(alias) # <<>>
                 THEN validate_alias(cmds, Val(alias), new_command.id)
                 ELSE "ok"
    IN  [commands |-> Append(cmds, new_command), error |-> error,
         saved |-> IF error = "ok" THEN 1 ELSE 0,
         ret |-> IF error = "ok" THEN Some(new_command) ELSE None,
         updated |-> None, merged_tags |-> None]

\* add, the branch taken when the command is not there yet
AddNew(cmds, command, description, tags, alias, t) ==
    LET new_command == NewCommand(cmds, command, description, tags, alias, t)
        error == IF IsSome(alias) /\ Val(alias) # <<>>
                 THEN validate_alias(cmds, Val(alias), new_command.id)
                 ELSE "ok"
    IN  IF error # "ok"
        THEN [commands |-> cmds, error |-> error, saved |-> 0, ret |-> None,
              updated |-> None, merged_tags |-> None]
        ELSE [commands |-> Append(cmds, new_command), error |-> "ok", saved |-> 1,
              ret |-> Some(new_command), updated |-> None, merged_tags |-> None]

\* add without line 17: the text is looked up and stored as given
add_unstripped(cmds, command, description, tags, alias, t) ==
    LET existing == find_by_command(cmds, command)
    IN  IF existing # 0
        THEN AddExisting(cmds, existing, tags, alias)
        ELSE AddNew(cmds, command, description, tags, alias, t)

\* add that takes the description of the call when the command is there
add_description_merged(cmds, command, description, tags, alias, t) ==
    LET stripped == Strip(command)
        existing == find_by_command(cmds, stripped)
    IN  IF existing # 0
        THEN AddExisting([cmds EXCEPT ![existing].description = description],
                         existing, tags, alias)
        ELSE AddNew(cmds, stripped, description, tags, alias, t)

\* CommandManager.add
add(cmds, command, description, tags, alias, t) ==
    LET stripped == Strip(command)
        existing == find_by_command(cmds, stripped)
    IN  IF existing # 0
        THEN AddExisting(cmds, existing, tags, alias)
        ELSE AddNew(cmds, stripped, description, tags, alias, t)

(* -------------------------------- edit -------------------------------- *)

\* edit: "if description:" replaces the description
EditDescription(cmd, description) ==
    IF IsSome(description) /\ Val(description) # <<>>
    THEN [cmd |-> [cmd EXCEPT !.description = Val(description)], updated |-> TRUE]
    ELSE [cmd |-> cmd, updated |-> FALSE]

\* edit of the tags that merges as add does
EditTagsMerge(cmd, tags) ==
    IF IsSome(tags)
    THEN [cmd |-> [cmd EXCEPT
                     !.tags = SortedList(ToSet(cmd.tags) \cup ToSet(Val(tags)))],
          updated |-> TRUE]
    ELSE [cmd |-> cmd, updated |-> FALSE]

\* edit: "if tags is not None:" replaces the tags
EditTags(cmd, tags) ==
    IF IsSome(tags)
    THEN [cmd |-> [cmd EXCEPT !.tags = Val(tags)], updated |-> TRUE]
    ELSE [cmd |-> cmd, updated |-> FALSE]

\* edit that validates the alias before it looks the command up
edit_validates_first(cmds, cmd_id, description, tags, alias) ==
    LET error == IF IsSome(alias)
                 THEN validate_alias(cmds, Val(alias), cmd_id)
                 ELSE "ok"
        i == get(cmds, cmd_id)
    IN  IF error # "ok"
        THEN [commands |-> cmds, error |-> error, saved |-> 0, ret |-> None,
              updated |-> None, merged_tags |-> None]
        ELSE IF i = 0
        THEN [commands |-> cmds, error |-> "ok", saved |-> 0, ret |-> None,
              updated |-> None, merged_tags |-> None]
        ELSE LET d == EditDescription(cmds[i], description)
                 g == EditTags(d.cmd, tags)
                 cmd == IF IsSome(alias) THEN [g.cmd EXCEPT !.alias = alias] ELSE g.cmd
                 updated == d.updated \/ g.updated \/ cmd # g.cmd
             IN  [commands |-> [cmds EXCEPT ![i] = cmd], error |-> "ok",
                  saved |-> IF updated THEN 1 ELSE 0, ret |-> Some(cmd),
                  updated |-> None, merged_tags |-> None]

\* CommandManager.edit
edit(cmds, cmd_id, description, tags, alias) ==
    LET i == get(cmds, cmd_id)
    IN  IF i = 0
        THEN [commands |-> cmds, error |-> "ok", saved |-> 0, ret |-> None,
              updated |-> None, merged_tags |-> None]
        ELSE
          LET d == EditDescription(cmds[i], description)
              g == EditTags(d.cmd, tags)
              changes == IsSome(alias) /\ alias # g.cmd.alias
              error == IF changes
                       THEN validate_alias([cmds EXCEPT ![i] = g.cmd], Val(alias), cmd_id)
                       ELSE "ok"
              cmd == IF changes /\ error = "ok"
                     THEN [g.cmd EXCEPT !.alias = alias]
                     ELSE g.cmd
              updated == d.updated \/ g.updated \/ changes
          IN  IF error # "ok"
              THEN \* the ValueError leaves edit after the assignments above
                   [commands |-> [cmds EXCEPT ![i] = g.cmd], error |-> error,
                    saved |-> 0, ret |-> None, updated |-> None, merged_tags |-> None]
              ELSE [commands |-> [cmds EXCEPT ![i] = cmd], error |-> "ok",
                    saved |-> IF updated THEN 1 ELSE 0, ret |-> Some(cmd),
                    updated |-> None, merged_tags |-> None]


(* ------------------------ delete, increment_usage --------------------- *)

\* delete_multiple that stops at the first command it removes
delete_multiple_first(cmds, cmd_ids) ==
    LET hits == {i \in DOMAIN cmds : cmds[i].id \in cmd_ids}
        first == CHOOSE i \in hits : \A j \in hits : i <= j
        kept == IF hits = {} THEN cmds
                ELSE SubSeq(cmds, 1, first - 1) \o SubSeq(cmds, first + 1, Len(cmds))
        deleted_count == Len(cmds) - Len(kept)
    IN  [commands |-> kept, error |-> "ok",
         saved |-> IF deleted_count > 0 THEN 1 ELSE 0,
         ret |-> Some(deleted_count), updated |-> None, merged_tags |-> None]

\* delete_multiple
delete_multiple(cmds, cmd_ids) ==
    LET kept == SelectSeq(cmds, LAMBDA cmd : cmd.id \notin cmd_ids)
        deleted_count == Len(cmds) - Len(kept)
    IN  [commands |-> kept, error |-> "ok",
         saved |-> IF deleted_count > 0 THEN 1 ELSE 0,
         ret |-> Some(deleted_count), updated |-> None, merged_tags |-> None]

\* delete: delete_multiple([cmd_id]) > 0
delete(cmds, cmd_id) ==
    LET r == delete_multiple(cmds, {cmd_id})
    IN  [r EXCEPT !.ret = Some(Val(r.ret) > 0)]

\* increment_usage without line 205
increment_usage_untimed(cmds, cmd_id, t) ==
    LET i == get(cmds, cmd_id)
    IN  IF i = 0
        THEN [commands |-> cmds, error |-> "ok", saved |-> 0, ret |-> None,
              updated |-> None, merged_tags |-> None]
        ELSE [commands |-> [cmds EXCEPT ![i].used_count = @ + 1],
              error |-> "ok", saved |-> 1, ret |-> None,
              updated |-> None, merged_tags |-> None]

\* increment_usage
increment_usage(cmds, cmd_id, t) ==
    LET i == get(cmds, cmd_id)
    IN  IF i = 0
        THEN [commands |-> cmds, error |-> "ok", saved |-> 0, ret |-> None,
              updated |-> None, merged_tags |-> None]
        ELSE [commands |-> [cmds EXCEPT ![i].used_count = @ + 1,
                                        ![i].last_used_at = Some(t)],
              error |-> "ok", saved |-> 1, ret |-> None,
              updated |-> None, merged_tags |-> None]

(* -------------------------- search, tag counts ------------------------ *)

UpperCase ==
    <<"A", "B", "C", "D", "E", "F", "G", "H", "I", "J", "K", "L", "M",
      "N", "O", "P", "Q", "R", "S", "T", "U", "V", "W", "X", "Y", "Z">>

LowerCase ==
    <<"a", "b", "c", "d", "e", "f", "g", "h", "i", "j", "k", "l", "m",
      "n", "o", "p", "q", "r", "s", "t", "u", "v", "w", "x", "y", "z">>

\* str.lower() of one character
LowerChar(c) ==
    IF \E k \in DOMAIN UpperCase : UpperCase[k] = c
    THEN LowerCase[CHOOSE k \in DOMAIN UpperCase : UpperCase[k] = c]
    ELSE c

\* str.lower()
Lower(s) == [k \in DOMAIN s |-> LowerChar(s[k])]

\* sub in s, for str
Contains(s, sub) ==
    \E k \in 1 .. Len(s) - Len(sub) + 1 : SubSeq(s, k, k + Len(sub) - 1) = sub

\* search, the tag filter comparing the tags as they are written
MatchesTagsExactly(cmd, tags) ==
    \E k \in DOMAIN tags : tags[k] \in ToSet(cmd.tags)

\* search, the tag filter: any(tag.lower() in [t.lower() for t in cmd['tags']] ...)
MatchesTags(cmd, tags) ==
    \E k \in DOMAIN tags :
        Lower(tags[k]) \in {Lower(cmd.tags[m]) : m \in DOMAIN cmd.tags}

\* search, the query filter looking at the command text alone
MatchesQueryInCommand(cmd, query) ==
    Contains(Lower(cmd.command), Lower(query))

\* search, the query filter
MatchesQuery(cmd, query) ==
    LET query_lower == Lower(query)
    IN  \/ Contains(Lower(cmd.command), query_lower)
        \/ Contains(Lower(cmd.description), query_lower)

\* CommandManager.search
search(cmds, query, tags) ==
    LET by_tags == IF IsSome(tags) /\ Val(tags) # <<>>
                   THEN SelectSeq(cmds, LAMBDA cmd : MatchesTags(cmd, Val(tags)))
                   ELSE cmds
    IN  IF IsSome(query) /\ Val(query) # <<>>
        THEN SelectSeq(by_tags, LAMBDA cmd : MatchesQuery(cmd, Val(query)))
        ELSE by_tags

\* tag_counts[tag] = tag_counts.get(tag, 0) + 1
CountTag(tag_counts, tag) ==
    IF tag \in DOMAIN tag_counts
    THEN [tag_counts EXCEPT ![tag] = @ + 1]
    ELSE tag_counts @@ (tag :> 1)

\* get_all_tags, the inner loop over the tags of one command
RECURSIVE CountTags(_, _)
CountTags(tag_counts, tags) ==
    IF tags = <<>> THEN tag_counts
    ELSE CountTags(CountTag(tag_counts, Head(tags)), Tail(tags))

\* get_all_tags, the loop over the commands
RECURSIVE CountAll(_, _)
CountAll(tag_counts, cmds) ==
    IF cmds = <<>> THEN tag_counts
    ELSE CountAll(CountTags(tag_counts, Head(cmds).tags), Tail(cmds))

\* CommandManager.get_all_tags: the dict, a function on the tags counted
get_all_tags(cmds) == CountAll(<<>>, cmds)

(* ------------------------------ get_stats ----------------------------- *)

\* the list without its element at position i
Without(xs, i) == SubSeq(xs, 1, i - 1) \o SubSeq(xs, i + 1, Len(xs))

\* sorted(..., key=used_count) without reverse=True: the stored order is kept
\* where it should not be
SortedByUsedStored(cmds) == cmds

\* sorted(self.commands, key=used_count, reverse=True): a stable sort, a
\* command goes before those with a lower count and before the later ones
\* with the same count
RECURSIVE SortedByUsed(_)
SortedByUsed(cmds) ==
    IF cmds = <<>> THEN <<>>
    ELSE LET i == CHOOSE k \in DOMAIN cmds :
                      /\ \A m \in DOMAIN cmds : cmds[m].used_count <= cmds[k].used_count
                      /\ \A m \in 1 .. k - 1 : cmds[m].used_count < cmds[k].used_count
         IN  <<cmds[i]>> \o SortedByUsed(Without(cmds, i))

\* xs[:n]
Take(xs, n) == SubSeq(xs, 1, IF Len(xs) < n THEN Len(xs) ELSE n)

\* all_tags.update(cmd['tags']) over the commands
RECURSIVE UpdateAllTags(_, _)
UpdateAllTags(all_tags, cmds) ==
    IF cmds = <<>> THEN all_tags
    ELSE UpdateAllTags(all_tags \cup ToSet(Head(cmds).tags), Tail(cmds))

\* CommandManager.get_stats
get_stats(cmds) ==
    LET all_tags == UpdateAllTags({}, cmds)
        most_used == Take(SortedByUsed(cmds), TopN)
    IN  [total       |-> Len(cmds),
         unique_tags |-> Cardinality(all_tags),
         tags        |-> SortedList(all_tags),
         most_used   |-> SelectSeq(most_used, LAMBDA cmd : cmd.used_count > 0)]

(* ------------------------- placeholders, the CLI ---------------------- *)

Digits == {"0", "1", "2", "3", "4", "5", "6", "7", "8", "9"}

\* \w of PLACEHOLDER_PATTERN
WordChars == ToSet(UpperCase) \cup ToSet(LowerCase) \cup Digits \cup {"_"}

\* the end of the longest run of word characters that starts at i; i - 1 if
\* there is none
RECURSIVE WordEnd(_, _)
WordEnd(s, i) ==
    IF i <= Len(s) /\ s[i] \in WordChars THEN WordEnd(s, i + 1) ELSE i - 1

\* the end of the match of \{\{(\w+)\}\} that starts at i; 0 if there is none
MatchEnd(s, i) ==
    IF i + 1 <= Len(s) /\ s[i] = "{" /\ s[i + 1] = "{"
    THEN LET e == WordEnd(s, i + 2)
         IN  IF e >= i + 2 /\ e + 2 <= Len(s) /\ s[e + 1] = "}" /\ s[e + 2] = "}"
             THEN e + 2
             ELSE 0
    ELSE 0

\* PLACEHOLDER_PATTERN.findall(command), scanning from position i
RECURSIVE FindAll(_, _)
FindAll(s, i) ==
    IF i > Len(s) THEN <<>>
    ELSE LET e == MatchEnd(s, i)
         IN  IF e = 0 THEN FindAll(s, i + 1)
             ELSE <<SubSeq(s, i + 2, e - 2)>> \o FindAll(s, e + 1)

\* the names not seen before, in the order of their first appearance
RECURSIVE Unseen(_, _)
Unseen(matches, seen) ==
    IF matches = <<>> THEN <<>>
    ELSE IF Head(matches) \in seen THEN Unseen(Tail(matches), seen)
    ELSE <<Head(matches)>> \o Unseen(Tail(matches), seen \cup {Head(matches)})

\* find_placeholders
find_placeholders(command) == Unseen(FindAll(command, 1), {})

\* substitute that drops a placeholder it has no value for
RECURSIVE SubFromDropping(_, _, _)
SubFromDropping(s, i, values) ==
    IF i > Len(s) THEN <<>>
    ELSE LET e == MatchEnd(s, i)
         IN  IF e = 0 THEN <<s[i]>> \o SubFromDropping(s, i + 1, values)
             ELSE (IF SubSeq(s, i + 2, e - 2) \in DOMAIN values
                   THEN values[SubSeq(s, i + 2, e - 2)]
                   ELSE <<>>)
                  \o SubFromDropping(s, e + 1, values)

substitute_dropping(command, values) == SubFromDropping(command, 1, values)

\* PLACEHOLDER_PATTERN.sub(replace, command), scanning from position i:
\* replace returns values.get(name, match.group(0))
RECURSIVE SubFrom(_, _, _)
SubFrom(s, i, values) ==
    IF i > Len(s) THEN <<>>
    ELSE LET e == MatchEnd(s, i)
         IN  IF e = 0 THEN <<s[i]>> \o SubFrom(s, i + 1, values)
             ELSE (IF SubSeq(s, i + 2, e - 2) \in DOMAIN values
                   THEN values[SubSeq(s, i + 2, e - 2)]
                   ELSE SubSeq(s, i, e))
                  \o SubFrom(s, e + 1, values)

\* substitute; values is the dict, a function of the names it has as keys
substitute(command, values) == SubFrom(command, 1, values)

\* `if args:` of handle_run: a list was given and it is not empty
Truthy(args) == IsSome(args) /\ Val(args) # <<>>

\* what a CLI handler did, and what it returned
Outcome(cmds, outcome, returned) ==
    [commands |-> cmds, error |-> "ok", saved |-> 0,
     ret |-> Some([outcome |-> outcome, returned |-> returned]),
     updated |-> None, merged_tags |-> None]

\* the handler called manager.increment_usage(cmd_id)
Counted(cmds, cmd_id, t, outcome, returned) ==
    [increment_usage(cmds, cmd_id, t)
        EXCEPT !.ret = Some([outcome |-> outcome, returned |-> returned])]

\* handle_run that does not count a successful run
handle_run_uncounted(cmds, cmd_id, dry_run, shell_mode, args, cancelled, success, t) ==
    LET i == get(cmds, cmd_id)
    IN  IF i = 0 THEN Outcome(cmds, "not_found", FALSE)
        ELSE IF /\ find_placeholders(cmds[i].command) # <<>>
                /\ ~Truthy(args)
                /\ cancelled
        THEN Outcome(cmds, "cancelled", FALSE)
        ELSE IF shell_mode THEN Counted(cmds, cmd_id, t, "shell", TRUE)
        ELSE IF dry_run THEN Outcome(cmds, "dry_run", TRUE)
        ELSE IF success THEN Outcome(cmds, "succeeded", TRUE)
        ELSE Outcome(cmds, "failed", FALSE)

\* CLI.handle_run. cancelled: the prompt for the values ends with EOF or an
\* interrupt; success: the executor reports exit code 0
handle_run(cmds, cmd_id, dry_run, shell_mode, args, cancelled, success, t) ==
    LET i == get(cmds, cmd_id)
    IN  IF i = 0 THEN Outcome(cmds, "not_found", FALSE)
        ELSE IF /\ find_placeholders(cmds[i].command) # <<>>
                /\ ~Truthy(args)
                /\ cancelled
        THEN Outcome(cmds, "cancelled", FALSE)
        ELSE IF shell_mode THEN Counted(cmds, cmd_id, t, "shell", TRUE)
        ELSE IF dry_run THEN Outcome(cmds, "dry_run", TRUE)
        ELSE IF success THEN Counted(cmds, cmd_id, t, "succeeded", TRUE)
        ELSE Outcome(cmds, "failed", FALSE)

\* CLI.handle_show
handle_show(cmds, cmd_id, t) ==
    IF get(cmds, cmd_id) # 0
    THEN Counted(cmds, cmd_id, t, "shown", FALSE)
    ELSE Outcome(cmds, "not_found", FALSE)

\* CLI.handle_interactive. selected: what interactive_select returns for the
\* listed commands, the id of one of them or None
handle_interactive(cmds, selected, cancelled, success, t) ==
    IF cmds = <<>> THEN Outcome(cmds, "no_commands", FALSE)
    ELSE IF IsSome(selected)
    THEN handle_run(cmds, Val(selected), FALSE, FALSE, None, cancelled, success, t)
    ELSE Outcome(cmds, "nothing_selected", FALSE)

\* handle_import, the loop over the commands read: each is added with no
\* description and no tags, and counted by result.get('updated', True)
RECURSIVE import_loop(_, _, _)
import_loop(cmds, candidates, t) ==
    IF candidates = <<>>
    THEN [commands |-> cmds, saved |-> 0, imported |-> 0, skipped |-> 0]
    ELSE LET result == add(cmds, Head(candidates), <<>>, <<>>, None, t)
             updated == IF IsSome(result.updated) THEN Val(result.updated) ELSE TRUE
             rest == import_loop(result.commands, Tail(candidates), t)
         IN  [commands |-> rest.commands,
              saved    |-> result.saved + rest.saved,
              imported |-> (IF updated THEN 0 ELSE 1) + rest.imported,
              skipped  |-> (IF updated THEN 1 ELSE 0) + rest.skipped]

\* CLI.handle_import, from the commands that read_history and filter_trivial
\* leave
handle_import(cmds, candidates, t) ==
    IF candidates = <<>>
    THEN [commands |-> cmds, error |-> "ok", saved |-> 0,
          ret |-> Some([outcome |-> "no_commands", candidates |-> candidates,
                        imported |-> 0, skipped |-> 0]),
          updated |-> None, merged_tags |-> None]
    ELSE LET r == import_loop(cmds, candidates, t)
         IN  [commands |-> r.commands, error |-> "ok", saved |-> r.saved,
              ret |-> Some([outcome |-> "imported", candidates |-> candidates,
                            imported |-> r.imported, skipped |-> r.skipped]),
              updated |-> None, merged_tags |-> None]

(* ------------------------- the selector (tui.py) ---------------------- *)

Max(a, b) == IF a > b THEN a ELSE b
Min(a, b) == IF a < b THEN a ELSE b

\* no selector runs. read: getch was called; key: the key it returned last;
\* drawn: the rows of the list the last frame drew
Idle ==
    [pc |-> "idle", commands |-> <<>>, current_idx |-> 0, offset |-> 0,
     list_height |-> 0, drawn |-> 0, result |-> None, read |-> FALSE,
          key |-> ""]

\* interactive_select without lines 17-18
interactive_select_unchecked(list) ==
    [pc |-> "redraw", commands |-> list, current_idx |-> 0, offset |-> 0,
     list_height |-> 0, drawn |-> 0, result |-> None, read |-> FALSE,
          key |-> ""]

\* interactive_select: None for an empty list, else _run_tui starts with
\* current_idx = 0 and offset = 0
interactive_select(list) ==
    IF list = <<>>
    THEN [pc |-> "returned", commands |-> list, current_idx |-> 0, offset |-> 0,
          list_height |-> 0, drawn |-> 0, result |-> None, read |-> FALSE,
          key |-> ""]
    ELSE [pc |-> "redraw", commands |-> list, current_idx |-> 0, offset |-> 0,
          list_height |-> 0, drawn |-> 0, result |-> None, read |-> FALSE,
          key |-> ""]

\* list_height = max(3, height - 3 - preview_height)
list_height(height) == Max(3, height - 3 - preview_height)

\* lines 84-89: the rows drawn of commands[offset:offset + list_height]; the
\* loop leaves at the first row with y = i + 2 >= height - preview_height - 1
rows_drawn(height, len, offset, rows) ==
    Cardinality({i \in 0 .. Min(rows, len - offset) - 1 :
                    i + 2 < height - preview_height - 1})

\* the adjustment with `offset = current_idx - list_height`
adjust_offset_short(offset, current_idx, rows) ==
    IF current_idx < offset THEN current_idx
    ELSE IF current_idx >= offset + rows THEN current_idx - rows
    ELSE offset

\* an adjustment that puts the current row in the middle of the window
adjust_offset_centered(offset, current_idx, rows) ==
    IF current_idx < offset \/ current_idx >= offset + rows
    THEN Max(0, current_idx - rows \div 2)
    ELSE offset

\* an adjustment that scrolls down by one row, as the down key needs
adjust_offset_by_row(offset, current_idx, rows) ==
    IF current_idx < offset THEN current_idx
    ELSE IF current_idx >= offset + rows THEN offset + 1
    ELSE offset

\* lines 67-70: the offset after the adjustment for scrolling
adjust_offset(offset, current_idx, rows) ==
    IF current_idx < offset THEN current_idx
    ELSE IF current_idx >= offset + rows THEN current_idx - rows + 1
    ELSE offset

\* the keys getch returns
MoveKeys == {"KEY_UP", "k", "KEY_DOWN", "j", "KEY_PPAGE", "KEY_NPAGE",
             "KEY_HOME", "KEY_END"}
EnterKeys == {"\n", "KEY_ENTER", "\r"}
QuitKeys == {"q", "ESC"}

\* lines 162-173 without max and min
move_unclamped(key, current_idx, len, rows) ==
    CASE key \in {"KEY_UP", "k"} -> current_idx - 1
      [] key \in {"KEY_DOWN", "j"} -> current_idx + 1
      [] key = "KEY_PPAGE" -> current_idx - rows
      [] key = "KEY_NPAGE" -> current_idx + rows
      [] key = "KEY_HOME" -> 0
      [] key = "KEY_END" -> len - 1
      [] OTHER -> current_idx

\* lines 162-173: current_idx after a key
move(key, current_idx, len, rows) ==
    CASE key \in {"KEY_UP", "k"} -> Max(0, current_idx - 1)
      [] key \in {"KEY_DOWN", "j"} -> Min(len - 1, current_idx + 1)
      [] key = "KEY_PPAGE" -> Max(0, current_idx - rows)
      [] key = "KEY_NPAGE" -> Min(len - 1, current_idx + rows)
      [] key = "KEY_HOME" -> 0
      [] key = "KEY_END" -> len - 1
      [] OTHER -> current_idx

\* a selector that returns the id of the first visible row
selected_id_at_offset(list, current_idx, offset) == list[offset + 1].id

\* line 175: commands[current_idx]['id']
selected_id(list, current_idx, offset) == list[current_idx + 1].id

\* a selector that an unknown key ends
handle_key_strict(t, key) ==
    IF key \in EnterKeys
    THEN [t EXCEPT !.pc = "returned", !.read = TRUE, !.key = key,
                   !.result = Some(selected_id(t.commands, t.current_idx, t.offset))]
    ELSE IF key \in QuitKeys \/ key \notin MoveKeys
    THEN [t EXCEPT !.pc = "returned", !.read = TRUE, !.key = key,
                   !.result = None]
    ELSE [t EXCEPT !.pc = "redraw", !.read = TRUE, !.key = key,
                   !.current_idx = move(key, t.current_idx, Len(t.commands),
                                        t.list_height)]

\* lines 160-177: the selector after getch returned this key
handle_key(t, key) ==
    IF key \in EnterKeys
    THEN [t EXCEPT !.pc = "returned", !.read = TRUE, !.key = key,
                   !.result = Some(selected_id(t.commands, t.current_idx, t.offset))]
    ELSE IF key \in QuitKeys
    THEN [t EXCEPT !.pc = "returned", !.read = TRUE, !.key = key,
                   !.result = None]
    ELSE [t EXCEPT !.pc = "redraw", !.read = TRUE, !.key = key,
                   !.current_idx = move(key, t.current_idx, Len(t.commands),
                                        t.list_height)]

(* ------------------------------ storage ------------------------------- *)

\* JSON values
JNull == [type |-> "null", value |-> <<>>]
JNumber(n) == [type |-> "number", value |-> n]
JString(text) == [type |-> "string", value |-> text]
JArray(items) == [type |-> "array", value |-> items]
\* an object: its members <<name, value>> in the order they were written
JObject(members) == [type |-> "object", value |-> members]

\* json.dump of None as the text of str(None)
DumpOptionalAsText(v) ==
    JString(IF v = None THEN <<"N", "o", "n", "e">> ELSE Val(v))

\* json.dump of a value that is None or a str: null or a string
DumpOptional(v) == IF v = None THEN JNull ELSE JString(Val(v))

\* json.dump of a list of str
DumpTags(tags) == JArray([i \in DOMAIN tags |-> JString(tags[i])])

\* json.dump of a command dict: its keys in the order add wrote them;
\* 'last_used_at' is a key only after increment_usage set it
DumpCommand(cmd) ==
    JObject(<< <<"id", JNumber(cmd.id)>>,
               <<"command", JString(cmd.command)>>,
               <<"description", JString(cmd.description)>>,
               <<"tags", DumpTags(cmd.tags)>>,
               <<"alias", DumpOptional(cmd.alias)>>,
               <<"created_at", JString(cmd.created_at)>>,
               <<"used_count", JNumber(cmd.used_count)>> >>
            \o (IF cmd.last_used_at = None THEN <<>>
                ELSE << <<"last_used_at", JString(Val(cmd.last_used_at))>> >>))

\* json.dump(commands, f, indent=2)
Dump(cmds) == JArray([i \in DOMAIN cmds |-> DumpCommand(cmds[i])])

\* the object has a member of this name
HasMember(object, name) ==
    \E k \in DOMAIN object.value : object.value[k][1] = name

\* the value of the object's member of this name
Member(object, name) ==
    object.value[CHOOSE k \in DOMAIN object.value : object.value[k][1] = name][2]

\* json.load of null or a string: None or a str
LoadOptional(j) == IF j.type = "null" THEN None ELSE Some(j.value)

\* json.load of an array of strings
LoadTags(j) == [i \in DOMAIN j.value |-> j.value[i].value]

\* json.load of an object written for a command: a dict of the same keys
LoadCommand(object) ==
    [id           |-> Member(object, "id").value,
     command      |-> Member(object, "command").value,
     description  |-> Member(object, "description").value,
     tags         |-> LoadTags(Member(object, "tags")),
     alias        |-> LoadOptional(Member(object, "alias")),
     created_at   |-> Member(object, "created_at").value,
     used_count   |-> Member(object, "used_count").value,
     last_used_at |-> IF HasMember(object, "last_used_at")
                      THEN Some(Member(object, "last_used_at").value)
                      ELSE None]

\* json.load(f) of a document written by save
LoadDocument(doc) == [i \in DOMAIN doc.value |-> LoadCommand(doc.value[i])]

\* the states of the commands file
Absent == [kind |-> "absent", doc |-> JNull]
\* bytes that are no text in the encoding open() reads with
Undecodable == [kind |-> "undecodable", doc |-> JNull]
\* text that is no JSON document
Malformed == [kind |-> "malformed", doc |-> JNull]
Json(doc) == [kind |-> "json", doc |-> doc]

\* CommandStorage._ensure_file_exists: write_text('[]') if there is no file
ensure_file_exists(file) ==
    IF file.kind = "absent" THEN Json(JArray(<<>>)) ELSE file

\* save that keeps what the file holds and appends the commands it lacks
save_merging(file, cmds) ==
    Json(JArray((IF file.kind = "json" THEN file.doc.value ELSE <<>>)
                \o SelectSeq(Dump(cmds).value,
                             LAMBDA object :
                                 \/ file.kind # "json"
                                 \/ \A k \in DOMAIN file.doc.value :
                                        file.doc.value[k] # object)))

\* CommandStorage.save: open(.., 'w') and json.dump write the whole list
save(file, cmds) == Json(Dump(cmds))

\* CommandStorage.load: open(.., 'r') raises if there is no file, the read
\* raises if the bytes are no text, json.load raises JSONDecodeError if the
\* text is no JSON, which alone is caught.  The file is not written.
load(file) ==
    CASE file.kind = "absent" ->
             [commands |-> <<>>, error |-> "FileNotFoundError", warning |-> FALSE]
      [] file.kind = "undecodable" ->
             [commands |-> <<>>, error |-> "UnicodeDecodeError", warning |-> FALSE]
      [] file.kind = "malformed" ->
             [commands |-> <<>>, error |-> "ok", warning |-> TRUE]
      [] OTHER ->
             [commands |-> LoadDocument(file.doc), error |-> "ok", warning |-> FALSE]

(* ------------------------------ the calls ----------------------------- *)

\* the names of the optional arguments a call supplies (not None)
Supplied(description, tags, alias) ==
    (IF IsSome(description) THEN {"description"} ELSE {})
        \cup (IF IsSome(tags) THEN {"tags"} ELSE {})
        \cup (IF IsSome(alias) THEN {"alias"} ELSE {})

\* the state after a Repository call with outcome r
Returns(op, cmd_id, supplied, r) ==
    /\ proc = "ready"
    /\ commands' = r.commands
    /\ disk' = IF r.saved > 0 THEN save(disk, r.commands) ELSE disk
    /\ last' = [op |-> op, cmd_id |-> cmd_id, supplied |-> supplied,
                error |-> r.error, saved |-> r.saved, ret |-> r.ret,
                updated |-> r.updated, merged_tags |-> r.merged_tags,
                warning |-> FALSE]
    /\ UNCHANGED <<proc, peer, tui>>

NoCall(op) ==
    [op |-> op, cmd_id |-> 0, supplied |-> {}, error |-> "ok", saved |-> 0,
     ret |-> None, updated |-> None, merged_tags |-> None, warning |-> FALSE]

Init ==
    /\ commands = <<>>
    /\ disk = Json(JArray(<<>>))
    /\ proc = "ready"
    /\ peer = <<>>
    /\ tui = Idle
    /\ now = 0
    /\ issued = {}
    /\ last = NoCall("init")

\* manager.add(command, description, tags, alias=alias), for ids up to max_id
AddUpTo(max_id, command, description, tags, alias) ==
    LET r == add(commands, command, description, tags, alias, now)
        created == Len(r.commands) > Len(commands)
    IN  /\ created => get_next_id(commands) <= max_id
        /\ Returns("add", 0, Supplied(None, None, alias), r)
        /\ issued' = IF created
                     THEN issued \cup {r.commands[Len(r.commands)].id}
                     ELSE issued
        /\ UNCHANGED now

\* manager.add(command, description, tags, alias=alias)
Add(command, description, tags, alias) ==
    AddUpTo(MaxId, command, description, tags, alias)

\* manager.edit(cmd_id, description, tags, alias)
Edit(cmd_id, description, tags, alias) ==
    /\ Returns("edit", cmd_id, Supplied(description, tags, alias),
               edit(commands, cmd_id, description, tags, alias))
    /\ UNCHANGED <<now, issued>>

\* manager.get(cmd_id)
Get(cmd_id) ==
    /\ Returns("get", cmd_id, {},
               [commands |-> commands, error |-> "ok", saved |-> 0,
                ret |-> IF get(commands, cmd_id) = 0 THEN None
                        ELSE Some(commands[get(commands, cmd_id)]),
                updated |-> None, merged_tags |-> None])
    /\ UNCHANGED <<now, issued>>

\* manager.delete(cmd_id)
Delete(cmd_id) ==
    /\ Returns("delete", cmd_id, {}, delete(commands, cmd_id))
    /\ UNCHANGED <<now, issued>>

\* manager.delete_multiple(cmd_ids)
DeleteMultiple(cmd_ids) ==
    /\ Returns("delete_multiple", 0, {}, delete_multiple(commands, cmd_ids))
    /\ UNCHANGED <<now, issued>>

\* manager.increment_usage(cmd_id), for counts up to max_used
IncrementUsageUpTo(max_used, cmd_id) ==
    /\ \A i \in DOMAIN commands :
           commands[i].id = cmd_id => commands[i].used_count < max_used
    /\ Returns("increment_usage", cmd_id, {}, increment_usage(commands, cmd_id, now))
    /\ UNCHANGED <<now, issued>>

\* manager.increment_usage(cmd_id)
IncrementUsage(cmd_id) == IncrementUsageUpTo(MaxUsed, cmd_id)

\* manager.get_stats()
GetStats ==
    /\ Returns("get_stats", 0, {},
               [commands |-> commands, error |-> "ok", saved |-> 0,
                ret |-> Some(get_stats(commands)),
                updated |-> None, merged_tags |-> None])
    /\ UNCHANGED <<now, issued>>

\* manager.search(query, tags)
Search(query, tags) ==
    /\ Returns("search", 0, Supplied(None, tags, None),
               [commands |-> commands, error |-> "ok", saved |-> 0,
                ret |-> Some([query |-> query, tags |-> tags,
                              results |-> search(commands, query, tags)]),
                updated |-> None, merged_tags |-> None])
    /\ UNCHANGED <<now, issued>>

\* manager.get_all_tags()
GetAllTags ==
    /\ Returns("get_all_tags", 0, {},
               [commands |-> commands, error |-> "ok", saved |-> 0,
                ret |-> Some(get_all_tags(commands)),
                updated |-> None, merged_tags |-> None])
    /\ UNCHANGED <<now, issued>>

\* the outcome of a step of the store: an error, a warning
StoreCall(op, error, warning) ==
    [NoCall(op) EXCEPT !.error = error, !.warning = warning]

\* a new process, first step: CommandStorage.__init__
Construct ==
    /\ disk' = ensure_file_exists(disk)
    /\ proc' = "constructed"
    /\ commands' = <<>>
    /\ last' = StoreCall("construct", "ok", FALSE)
    /\ UNCHANGED <<peer, tui, now, issued>>

\* a new process, second step: CommandManager.__init__ loads the file; the
\* process ends if load raises
LoadStore ==
    LET r == load(disk)
    IN  /\ proc = "constructed"
        /\ commands' = r.commands
        /\ proc' = IF r.error = "ok" THEN "ready" ELSE "failed"
        /\ last' = StoreCall("load", r.error, r.warning)
        /\ UNCHANGED <<disk, peer, tui, now, issued>>

\* a new process: CommandManager(CommandStorage(COMMANDS_FILE)), while no
\* other process touches the file
Load ==
    LET file == ensure_file_exists(disk)
        r == load(file)
    IN  /\ commands' = r.commands
        /\ disk' = file
        /\ proc' = IF r.error = "ok" THEN "ready" ELSE "failed"
        /\ last' = StoreCall("load", r.error, r.warning)
        /\ UNCHANGED <<peer, tui, now, issued>>

\* the file is removed from outside
RemoveFile ==
    /\ disk' = Absent
    /\ last' = NoCall("remove_file")
    /\ UNCHANGED <<commands, proc, peer, tui, now, issued>>

\* the file is overwritten from outside
CorruptFile(file) ==
    /\ disk' = file
    /\ last' = NoCall("corrupt_file")
    /\ UNCHANGED <<commands, proc, peer, tui, now, issued>>

\* the scheduler: the process that waits runs, the one that ran waits
Switch ==
    /\ proc = "ready"
    /\ commands' = peer
    /\ peer' = commands
    /\ last' = NoCall("switch")
    /\ UNCHANGED <<disk, proc, tui, now, issued>>

\* time passes
Tick ==
    /\ now < MaxClock
    /\ now' = now + 1
    /\ last' = NoCall("tick")
    /\ UNCHANGED <<commands, disk, proc, peer, tui, issued>>

(* ------------------------------ inputs -------------------------------- *)

Opt(S) == {None} \cup {Some(v) : v \in S}

\* ids asked for: every id that can exist and one that cannot
Ids == 1 .. MaxId + 1

\* command texts: two texts, one of them also with surrounding whitespace
CommandInputs == {<<"l">>, <<" ", "l", "\t">>, <<"p">>}

Descriptions == {<<>>, <<"d">>}

\* tag lists: unsorted, and differing in case only
TagLists == {<<>>, <<<<"b">>, <<"a">>>>, <<<<"A">>>>}

\* aliases: empty, valid, starting with '-', reserved
AliasInputs == {<<>>, <<"x">>, <<"-", "x">>, <<"l", "s">>}

\* the command texts of the specifications about aliases and about tags
TwoCommands == {<<"l">>, <<"p">>}

(* ------------- the repository over its lifetime (Spec) ---------------- *)

Next ==
    \/ \E c \in CommandInputs, d \in Descriptions : Add(c, d, <<>>, None)
    \/ \E id \in Ids : Edit(id, Some(<<"d">>), None, None)
    \/ \E id \in Ids : Edit(id, None, None, Some(<<"-", "x">>))
    \/ \E id \in Ids : Get(id)
    \/ \E id \in Ids : Delete(id)
    \/ \E ids \in SUBSET Ids : DeleteMultiple(ids)
    \/ \E id \in Ids : IncrementUsage(id)
    \/ Load
    \/ Tick

Spec == Init /\ [][Next]_vars

(* ------------------- aliases on add and edit (SpecAlias) -------------- *)

NextAlias ==
    \/ \E c \in TwoCommands, a \in Opt(AliasInputs) :
          Add(c, <<"d">>, <<>>, a)
    \/ \E id \in 1 .. 2, d \in Opt({<<"e">>}), a \in Opt(AliasInputs) :
          Edit(id, d, None, a)
    \/ Load

SpecAlias == Init /\ [][NextAlias]_vars

(* --------------------- tags on add and edit (SpecTags) ---------------- *)

NextTags ==
    \/ \E c \in TwoCommands, d \in Descriptions, t \in TagLists :
          Add(c, d, t, None)
    \/ \E id \in 1 .. 2, t \in Opt(TagLists) : Edit(id, None, t, None)
    \/ \E id \in 1 .. 2 : IncrementUsage(id)

SpecTags == Init /\ [][NextTags]_vars

(* ------------- search and tag counts (SpecQuery) ---------------------- *)

\* command texts and descriptions that differ in case from the queries
QueryCommands == {<<"l", "s">>, <<"P">>}

QueryDescriptions == {<<>>, <<"L">>}

\* tag lists: one repeats a tag
QueryTagLists == {<<>>, <<<<"a">>, <<"a">>>>, <<<<"A">>>>, <<<<"b">>>>}

Queries == {<<>>, <<"l">>, <<"S">>, <<"p">>}

\* tag lists searched for: one tag in the other case, two tags of which one
\* is on no command
SearchTags == {<<>>, <<<<"a">>>>, <<<<"B">>>>, <<<<"c">>, <<"A">>>>}

NextQuery ==
    \/ \E c \in QueryCommands, d \in QueryDescriptions, t \in QueryTagLists :
          Add(c, d, t, None)
    \/ \E id \in 1 .. 2, t \in QueryTagLists : Edit(id, None, Some(t), None)
    \/ \E q \in Opt(Queries), t \in Opt(SearchTags) : Search(q, t)
    \/ GetAllTags

SpecQuery == Init /\ [][NextQuery]_vars

(* ---------------------------- the CLI (SpecCli) ----------------------- *)

\* the count of every command the result r counted stays within MaxUsed
WithinMaxUsed(r) ==
    \A i \in DOMAIN r.commands : r.commands[i].used_count <= MaxUsed

\* see run <id> [--dry-run] [--shell] [args]
HandleRun(cmd_id, dry_run, shell_mode, args, cancelled, success) ==
    LET r == handle_run(commands, cmd_id, dry_run, shell_mode, args,
                        cancelled, success, now)
    IN  /\ WithinMaxUsed(r)
        /\ Returns("handle_run", cmd_id, {}, r)
        /\ UNCHANGED <<now, issued>>

\* see show <id>
HandleShow(cmd_id) ==
    LET r == handle_show(commands, cmd_id, now)
    IN  /\ WithinMaxUsed(r)
        /\ Returns("handle_show", cmd_id, {}, r)
        /\ UNCHANGED <<now, issued>>

\* see interactive
HandleInteractive(selected, cancelled, success) ==
    LET r == handle_interactive(commands, selected, cancelled, success, now)
    IN  /\ WithinMaxUsed(r)
        /\ Returns("handle_interactive", IF IsSome(selected) THEN Val(selected) ELSE 0,
                   {}, r)
        /\ UNCHANGED <<now, issued>>

\* a plain command, one with a placeholder, one with braces and no placeholder
CliCommands ==
    {<<"l">>, <<"e", " ", "{", "{", "x", "}", "}">>, <<"{", "{", "}", "}">>}

ArgLists == {<<>>, <<<<"v">>>>}

NextCli ==
    \/ \E c \in CliCommands : Add(c, <<>>, <<>>, None)
    \/ \E id \in Ids, dry_run, shell_mode, cancelled, success \in BOOLEAN,
          args \in Opt(ArgLists) :
          HandleRun(id, dry_run, shell_mode, args, cancelled, success)
    \/ \E id \in Ids : HandleShow(id)
    \/ \E selected \in Opt({commands[i].id : i \in DOMAIN commands}),
          cancelled, success \in BOOLEAN :
          HandleInteractive(selected, cancelled, success)

SpecCli == Init /\ [][NextCli]_vars

(* ------------------------- placeholders (SpecVars) -------------------- *)

\* find_placeholders is called with the command given
FindPlaceholders ==
    /\ last.op = "given"
    /\ Returns("find_placeholders", 0, {},
               [commands |-> commands, error |-> "ok", saved |-> 0,
                ret |-> Some([command |-> Val(last.ret).command,
                              names |-> find_placeholders(Val(last.ret).command)]),
                updated |-> None, merged_tags |-> None])
    /\ UNCHANGED <<now, issued>>

\* substitute is called with the command and the values given
Substitute ==
    /\ last.op = "given"
    /\ Returns("substitute", 0, {},
               [commands |-> commands, error |-> "ok", saved |-> 0,
                ret |-> Some([command |-> Val(last.ret).command,
                              values |-> Val(last.ret).values,
                              result |-> substitute(Val(last.ret).command,
                                                    Val(last.ret).values)]),
                updated |-> None, merged_tags |-> None])
    /\ UNCHANGED <<now, issued>>

Pieces ==
    {<<"a">>, <<"{">>, <<"}">>,
     <<"{", "{", "x", "}", "}">>, <<"{", "{", "y", "_", "1", "}", "}">>,
     <<"{", "{", "}", "}">>, <<"{", "{", "x", " ", "}", "}">>}

\* the texts put together from at most n pieces
RECURSIVE Texts(_)
Texts(n) ==
    IF n = 0 THEN {<<>>}
    ELSE Texts(n - 1) \cup {t \o piece : t \in Texts(n - 1), piece \in Pieces}

PlaceholderNames == {<<"x">>, <<"y", "_", "1">>, <<"z">>}

PlaceholderValues == {<<>>, <<"v">>, <<"{", "{", "x", "}", "}">>}

\* the dicts from some of the names to the values
ValueDicts ==
    UNION {[keys -> PlaceholderValues] : keys \in SUBSET PlaceholderNames}

\* a command and a dict are given to the functions
InitVars ==
    /\ commands = <<>>
    /\ disk = Json(JArray(<<>>))
    /\ proc = "ready"
    /\ peer = <<>>
    /\ tui = Idle
    /\ now = 0
    /\ issued = {}
    /\ \E command \in Texts(MaxPieces), values \in ValueDicts :
           last = [NoCall("given") EXCEPT
                      !.ret = Some([command |-> command, values |-> values])]

NextVars ==
    \/ FindPlaceholders
    \/ Substitute

SpecVars == InitVars /\ [][NextVars]_vars

(* ------------------------ what edit saves (SpecEdit) ----------------- *)

\* descriptions given to edit: the empty text among them
EditDescriptions == {<<>>, <<"d">>, <<"e">>}

\* the tag list given to edit
EditTagInputs == {<<<<"a">>>>}

\* the alias given to edit
EditAliases == {<<"x">>}

NextEdit ==
    \/ \E c \in TwoCommands, t \in {<<>>} \cup EditTagInputs :
          Add(c, <<"d">>, t, None)
    \/ \E id \in 1 .. 2, d \in Opt(EditDescriptions), t \in Opt(EditTagInputs),
          a \in Opt(EditAliases) :
          Edit(id, d, t, a)

SpecEdit == Init /\ [][NextEdit]_vars

(* ------------------------- import (SpecImport) ----------------------- *)

\* see import, with these commands read from the file
HandleImport(candidates) ==
    LET r == handle_import(commands, candidates, now)
    IN  /\ \A i \in DOMAIN r.commands : r.commands[i].id <= MaxId
        /\ Returns("handle_import", 0, {}, r)
        /\ issued' = issued \cup {r.commands[i].id : i \in DOMAIN r.commands}
        /\ UNCHANGED now

ImportCommands == {<<"l">>, <<"p">>, <<"q">>}

\* what read_history returns: at most two lines, no line twice
Candidates ==
    {<<>>} \cup {<<c>> : c \in ImportCommands}
           \cup ({<<c, d>> : c, d \in ImportCommands}
                     \ {<<c, c>> : c \in ImportCommands})

NextImport ==
    \/ \E c \in TwoCommands : Add(c, <<"d">>, <<>>, None)
    \/ \E candidates \in Candidates : HandleImport(candidates)
    \/ \E id \in Ids : Delete(id)

SpecImport == Init /\ [][NextImport]_vars

(* ------------------------- a lifecycle (SpecLife) --------------------- *)

NextLife ==
    \/ \E c \in TwoCommands : Add(c, <<"d">>, <<<<"a">>>>, None)
    \/ \E id \in 1 .. 2, dry_run, success \in BOOLEAN :
          HandleRun(id, dry_run, FALSE, None, FALSE, success)
    \/ \E id \in 1 .. 2 : Delete(id)
    \/ \E id \in 1 .. 2 : Get(id)
    \/ GetStats
    \/ Tick

SpecLife == Init /\ [][NextLife]_vars

(* --------------------------- the selector (SpecTui) ------------------- *)

\* interactive_select(commands) is called
InteractiveSelect(list) ==
    /\ tui.pc \in {"idle", "returned"}
    /\ tui' = interactive_select(list)
    /\ UNCHANGED <<commands, disk, proc, peer, now, issued, last>>

\* _run_tui, lines 47-155: the frame is drawn on a terminal of this height
Redraw(height) ==
    /\ tui.pc = "redraw"
    /\ LET offset == adjust_offset(tui.offset, tui.current_idx, list_height(height))
       IN  tui' = [tui EXCEPT !.pc = "getch",
                              !.list_height = list_height(height),
                              !.offset = offset,
                              !.drawn = rows_drawn(height, Len(tui.commands), offset,
                                                   list_height(height))]
    /\ UNCHANGED <<commands, disk, proc, peer, now, issued, last>>

\* _run_tui, lines 160-177: getch returns a key
Key(key) ==
    /\ tui.pc = "getch"
    /\ tui' = handle_key(tui, key)
    /\ UNCHANGED <<commands, disk, proc, peer, now, issued, last>>

\* a list of n commands; the selector reads their ids
Listing(n) == [i \in 1 .. n |-> [id |-> 10 * (n + 1 - i) + n]]

Listings == {Listing(n) : n \in 0 .. MaxRows}

Heights == {1, MaxHeight - 2, MaxHeight - 1, MaxHeight}

Keys == MoveKeys \cup EnterKeys \cup QuitKeys \cup {"x"}

NextTui ==
    \/ \E list \in Listings : InteractiveSelect(list)
    \/ \E height \in Heights : Redraw(height)
    \/ \E key \in Keys : Key(key)

SpecTui == Init /\ [][NextTui]_vars

\* the loop draws the next frame; a key that ends the selector comes in the end
SpecTuiLive ==
    /\ SpecTui
    /\ WF_vars(\E height \in Heights : Redraw(height))
    /\ SF_vars(\E key \in EnterKeys \cup QuitKeys : Key(key))

(* ----------------------- two processes (SpecProcs) -------------------- *)

NextProcs ==
    \/ \E c \in TwoCommands : Add(c, <<>>, <<>>, None)
    \/ \E id \in 1 .. 2 : Edit(id, Some(<<"d">>), None, None)
    \/ \E id \in 1 .. 2 : IncrementUsage(id)
    \/ Switch
    \/ Load

SpecProcs == Init /\ [][NextProcs]_vars

(* --------------------------- the file (SpecStore) --------------------- *)

CorruptFiles == {Malformed, Undecodable}

NextStore ==
    \/ Construct
    \/ LoadStore
    \/ RemoveFile
    \/ \E file \in CorruptFiles : CorruptFile(file)
    \/ \E c \in TwoCommands, t \in {<<>>, <<<<"b">>, <<"a">>>>}, a \in Opt({<<"x">>}) :
          Add(c, <<"d">>, t, a)
    \/ \E id \in 1 .. 2 : IncrementUsage(id)

SpecStore == Init /\ [][NextStore]_vars

(* ------------------------ statistics (SpecStats) ---------------------- *)

\* the adds, in this order: one command more than the most-used list holds
StatsCalls ==
    <<[command |-> <<"a">>, tags |-> <<<<"a">>>>],
      [command |-> <<"b">>, tags |-> <<<<"b">>, <<"a">>>>],
      [command |-> <<"c">>, tags |-> <<>>],
      [command |-> <<"d">>, tags |-> <<<<"A">>>>],
      [command |-> <<"e">>, tags |-> <<>>],
      [command |-> <<"f">>, tags |-> <<<<"a">>>>]>>

NextStats ==
    \/ \E k \in DOMAIN StatsCalls :
          /\ k = Len(commands) + 1
          /\ AddUpTo(Len(StatsCalls), StatsCalls[k].command, <<>>, StatsCalls[k].tags, None)
    \/ \E id \in DOMAIN StatsCalls : IncrementUsageUpTo(MaxStatsUsed, id)
    \/ GetStats

SpecStats == Init /\ [][NextStats]_vars

(* ====================== the claims, C1 to C10 ======================== *)

\* the last step appended a command
Created == Len(commands') = Len(commands) + 1

\* the command appended by the last step
Newest == commands'[Len(commands')]

\* some command of cmds has this text once both are stripped
Present(cmds, command) ==
    \E i \in DOMAIN cmds : Strip(cmds[i].command) = Strip(command)

\* the position of the first command of cmds with this text, stripped
PositionOf(cmds, command) ==
    CHOOSE i \in DOMAIN cmds :
        /\ Strip(cmds[i].command) = Strip(command)
        /\ \A j \in 1 .. i - 1 : Strip(cmds[j].command) # Strip(command)

C1_UniqueCommands ==
    \A i, j \in DOMAIN commands :
        i # j => Strip(commands[i].command) # Strip(commands[j].command)

C1_AddStep ==
    last'.op = "add" =>
        \/ Len(commands') = Len(commands)
        \/ Created /\ ~Present(commands, Newest.command)

\* C1: from the empty store, under add, edit, delete, delete_multiple and
\* increment_usage, no two commands of the collection have the same stripped
\* command text, and an add either leaves the number of commands unchanged or
\* appends one command whose stripped text was not in the collection.
C1_Dedup == [](C1_UniqueCommands) /\ [][C1_AddStep]_vars

\* an add found its command, given with surrounding whitespace or not, beside
\* another command
C1_Witness ==
    /\ last.op = "add"
    /\ IsSome(last.updated)
    /\ Len(commands) = 2

\* C2: the id of a newly created command differs from every id given to a
\* command before, deleted or not.
C2_IdsNeverReused ==
    [][last'.op = "add" /\ Created => Newest.id \notin issued]_vars

(* ------------------------------ aliases ------------------------------- *)

\* a command of cmds other than the one with this id holds the alias
OwnedByOther(cmds, alias, cmd_id) ==
    \E i \in DOMAIN cmds : cmds[i].alias = Some(alias) /\ cmds[i].id # cmd_id

\* the alias is one the specification forbids the command cmd_id to hold
Forbidden(cmds, alias, cmd_id) ==
    \/ StartsWith(alias, <<"-">>)
    \/ alias \in RESERVED_KEYWORDS
    \/ OwnedByOther(cmds, alias, cmd_id)

\* C3: no two commands hold the same non-empty alias, and no command holds an
\* alias that starts with '-' or is a reserved word.
C3_AliasInvariant ==
    /\ \A i, j \in DOMAIN commands :
           (i # j /\ IsSome(commands[i].alias) /\ Val(commands[i].alias) # <<>>)
               => commands[i].alias # commands[j].alias
    /\ \A i \in DOMAIN commands :
           IsSome(commands[i].alias) =>
               /\ ~StartsWith(Val(commands[i].alias), <<"-">>)
               /\ Val(commands[i].alias) \notin RESERVED_KEYWORDS

C4_Step(cmd_id, alias) ==
    (/\ Edit(cmd_id, None, None, Some(alias))
     /\ get(commands, cmd_id) # 0
     /\ commands[get(commands, cmd_id)].alias # Some(alias)
     /\ OwnedByOther(commands, alias, cmd_id))
        => /\ last'.error # "ok"
           /\ last'.saved = 0
           /\ commands' = commands
           /\ disk' = disk

\* C4: edit(id, alias=a) with no other argument, for a non-empty alias a that
\* the command does not hold and a command with a different id does, raises,
\* leaves every command as it was and saves nothing.
C4_EditAliasInUse ==
    [][\A cmd_id \in 1 .. 2, alias \in AliasInputs \ {<<>>} : C4_Step(cmd_id, alias)]_vars

\* an edit that supplied the alias alone was refused because another command
\* holds the alias
C4_Witness ==
    /\ last.op = "edit"
    /\ last.supplied = {"alias"}
    /\ last.error = "in_use"

\* C5: an edit that raises on its alias leaves the command's description, tags
\* and alias, in memory and in the file, as they were before the call.
C5_FailedEditChangesNothing ==
    [][(last'.op = "edit" /\ last'.error # "ok")
           => (commands' = commands /\ disk' = disk)]_vars

C6_Step(command, alias) ==
    (/\ Add(command, <<"d">>, <<>>, Some(alias))
     /\ Present(commands, command)
     /\ commands[PositionOf(commands, command)].alias # Some(alias)
     /\ Forbidden(commands, alias, commands[PositionOf(commands, command)].id))
        => /\ last'.error # "ok"
           /\ commands' = commands
           /\ disk' = disk

\* C6: an add of a command text that is there, with a non-empty alias that the
\* command does not hold and that starts with '-', is reserved or is held by
\* a command with a different id, raises, leaves the alias as it was and saves
\* nothing.
C6_MergeValidatesAlias ==
    [][\A command \in TwoCommands, alias \in AliasInputs \ {<<>>} :
           C6_Step(command, alias)]_vars

C7_Step(command, alias) ==
    (/\ Add(command, <<"d">>, <<>>, Some(alias))
     /\ ~Present(commands, command)
     /\ Forbidden(commands, alias, get_next_id(commands)))
        => /\ last'.error # "ok"
           /\ last'.saved = 0
           /\ commands' = commands
           /\ disk' = disk
           /\ issued' = issued
           /\ get_next_id(commands') = get_next_id(commands)

\* C7: an add of a command text that is not there, with an alias that starts
\* with '-', is reserved or is held by a command, raises, appends nothing,
\* leaves the collection and the file as they were, and leaves the id the next
\* add gives as it was.
C7_FailedAddChangesNothing ==
    [][\A command \in TwoCommands, alias \in AliasInputs \ {<<>>} :
           C7_Step(command, alias)]_vars

\* an add of a new command text was refused for its alias, beside a command
\* that is there
C7_Witness ==
    /\ last.op = "add"
    /\ last.error # "ok"
    /\ Len(commands) = 1

(* -------------------------------- tags -------------------------------- *)

C8_Step(command, description, tags) ==
    (Add(command, description, tags, None) /\ Present(commands, command)) =>
        LET i == PositionOf(commands, command)
            E == ToSet(commands[i].tags)
            T == ToSet(tags)
        IN  /\ ToSet(commands'[i].tags) = E \cup T
            /\ last'.merged_tags = Some(E \cup T # E)

\* C8: an add with tags T of a command text that is there with tags E leaves
\* the command with the tag set E \cup T, and returns merged_tags true exactly
\* when E \cup T is a strict superset of E.
C8_MergeUnionsTags ==
    [][\A command \in TwoCommands, description \in Descriptions, tags \in TagLists :
           C8_Step(command, description, tags)]_vars

\* an add merged a tag into two tags that were there
C8_Witness ==
    /\ last.op = "add"
    /\ last.merged_tags = Some(TRUE)
    /\ Val(last.ret).tags = <<<<"A">>, <<"a">>, <<"b">>>>

C9_Step(cmd_id, tags) ==
    (Edit(cmd_id, None, Some(tags), None) /\ get(commands, cmd_id) # 0) =>
        commands'[get(commands, cmd_id)].tags = tags

\* C9: edit(id, tags=T) of a command that is there leaves it with the tags T
\* and no other tag.
C9_EditReplacesTags ==
    [][\A cmd_id \in 1 .. 2, tags \in TagLists : C9_Step(cmd_id, tags)]_vars

\* an edit gave one tag to a command; it returned the command with that tag alone
C9_Witness ==
    /\ last.op = "edit"
    /\ last.supplied = {"tags"}
    /\ IsSome(last.ret)
    /\ Val(last.ret).tags = <<<<"A">>>>

C10_Step(command, description, tags) ==
    (Add(command, description, tags, None) /\ Present(commands, command)) =>
        LET i == PositionOf(commands, command)
        IN  /\ Len(commands') = Len(commands)
            /\ \A j \in DOMAIN commands : j # i => commands'[j] = commands[j]
            /\ commands'[i] = [commands[i] EXCEPT !.tags = commands'[i].tags,
                                                 !.alias = commands'[i].alias]

\* C10: an add of a command text that is there changes nothing but the tags
\* and the alias of that command: its id, command text, description,
\* created_at, used_count and last_used_at stay, whatever description the call
\* gives, and so does every other command.
C10_MergeFrame ==
    [][\A command \in TwoCommands, description \in Descriptions, tags \in TagLists :
           C10_Step(command, description, tags)]_vars

\* an add changed the tags of a command that had been used, beside another
\* command
C10_Witness ==
    /\ last.op = "add"
    /\ last.updated = Some(TRUE)
    /\ Val(last.ret).used_count > 0
    /\ Len(commands) = 2

(* ====================== the claims, C11 to C20 ======================= *)

NoDuplicates(xs) == \A i, j \in DOMAIN xs : i # j => xs[i] # xs[j]

\* C11: no command's stored tags hold the same tag twice.
C11_TagsDistinct ==
    \A i \in DOMAIN commands : NoDuplicates(commands[i].tags)

\* C12: the ids of the collection, in stored order, are strictly increasing
\* (and so pairwise distinct).
C12_IdsIncreasing ==
    \A i, j \in DOMAIN commands : i < j => commands[i].id < commands[j].id

\* a command was added behind a command that outlived the deletion of an
\* earlier one
C12_Witness ==
    /\ last.op = "add"
    /\ Len(commands) = 2
    /\ commands[1].id > 1

\* the commands of cmds, in order, whose id is not in cmd_ids
Remaining(cmds, cmd_ids) ==
    LET keep == {i \in DOMAIN cmds : cmds[i].id \notin cmd_ids}
        \* the position in cmds of the k-th command kept
        at(k) == CHOOSE i \in keep : Cardinality({j \in keep : j <= i}) = k
    IN  [k \in 1 .. Cardinality(keep) |-> cmds[at(k)]]

C13_Step(cmd_ids) ==
    DeleteMultiple(cmd_ids) =>
        LET removed == Cardinality({i \in DOMAIN commands : commands[i].id \in cmd_ids})
        IN  /\ commands' = Remaining(commands, cmd_ids)
            /\ last'.error = "ok"
            /\ last'.ret = Some(removed)
            /\ last'.saved = (IF removed >= 1 THEN 1 ELSE 0)
            /\ disk' = (IF removed >= 1 THEN save(disk, commands') ELSE disk)

\* C13: delete_multiple(ids) removes the commands whose id is in ids and no
\* other, keeps the rest as they were and in their order, returns the number
\* removed, saves once when that number is at least 1, and when it is 0 returns
\* 0 without raising and without saving.
C13_DeleteMultiple ==
    [][\A cmd_ids \in SUBSET Ids : C13_Step(cmd_ids)]_vars

\* a delete_multiple removed one command of two and kept the second
C13_Witness ==
    /\ last.op = "delete_multiple"
    /\ last.ret = Some(1)
    /\ Len(commands) = 1
    /\ commands[1].id = 2

IdsOf(cmds) == {cmds[i].id : i \in DOMAIN cmds}

C14_Step ==
    (/\ last'.op \in {"get", "edit", "delete", "increment_usage"}
     /\ last'.cmd_id \notin IdsOf(commands))
        => /\ last'.error = "ok"
           /\ last'.ret = (IF last'.op = "delete" THEN Some(FALSE) ELSE None)
           /\ last'.saved = 0
           /\ commands' = commands
           /\ disk' = disk

\* C14: get, edit (whatever its arguments, an alias that starts with '-'
\* included), delete and increment_usage of an id that is not in the
\* collection return None (delete: False), do not raise, leave the collection
\* as it was and save nothing.
C14_UnknownId == [][C14_Step]_vars

\* an edit with an alias that starts with '-' returned None for an id that is
\* not there, beside a command that is
C14_Witness ==
    /\ last.op = "edit"
    /\ "alias" \in last.supplied
    /\ last.cmd_id \notin IdsOf(commands)
    /\ last.error = "ok"
    /\ last.ret = None
    /\ commands # <<>>

\* the command of cmds with this id
Entity(cmds, cmd_id) == cmds[CHOOSE i \in DOMAIN cmds : cmds[i].id = cmd_id]

C15_Step(cmd_id) ==
    (IncrementUsage(cmd_id) /\ cmd_id \in IdsOf(commands)) =>
        LET i == CHOOSE k \in DOMAIN commands : commands[k].id = cmd_id
        IN  /\ commands'[i].used_count = commands[i].used_count + 1
            /\ commands'[i].last_used_at = Some(now)
            /\ commands' = [commands EXCEPT
                              ![i].used_count = commands'[i].used_count,
                              ![i].last_used_at = commands'[i].last_used_at]
            /\ last'.saved = 1
            /\ disk' = save(disk, commands')

C15_NeverDecreases ==
    \A cmd_id \in IdsOf(commands) \cap IdsOf(commands') :
        Entity(commands', cmd_id).used_count >= Entity(commands, cmd_id).used_count

\* C15: increment_usage(id) of a command that is there adds 1 to its
\* used_count, sets its last_used_at to the time of the call, saves once and
\* changes no other field and no other command; no step lowers the used_count
\* of a command that stays in the collection.
C15_IncrementUsage ==
    [][(\A cmd_id \in Ids : C15_Step(cmd_id)) /\ C15_NeverDecreases]_vars

\* the second of two commands was used, after the clock had moved on
C15_Witness ==
    /\ last.op = "increment_usage"
    /\ last.saved = 1
    /\ Len(commands) = 2
    /\ commands[2].used_count = 1
    /\ commands[2].last_used_at = Some(1)

(* ------------------------------- search ------------------------------- *)

\* the same character, or the two cases of one letter
SameLetter(a, b) ==
    \/ a = b
    \/ \E k \in DOMAIN UpperCase : {a, b} = {UpperCase[k], LowerCase[k]}

\* the texts are equal when case is ignored
EqualIgnoringCase(s, t) ==
    Len(s) = Len(t) /\ \A k \in DOMAIN s : SameLetter(s[k], t[k])

\* sub occurs in s when case is ignored
OccursIgnoringCase(sub, s) ==
    \E k \in 0 .. Len(s) - Len(sub) :
        \A j \in DOMAIN sub : SameLetter(sub[j], s[k + j])

\* some tag asked for is some tag of the command, case ignored
PassesTags(cmd, tags) ==
    \E k \in DOMAIN tags, m \in DOMAIN cmd.tags :
        EqualIgnoringCase(tags[k], cmd.tags[m])

PassesQuery(cmd, query) ==
    OccursIgnoringCase(query, cmd.command) \/ OccursIgnoringCase(query, cmd.description)

\* an argument that is given and not empty
Given(arg) == IsSome(arg) /\ Val(arg) # <<>>

\* C17: search(tags=R) with R not empty returns the commands for which some
\* tag of R equals some tag of the command when case is ignored, and no other
\* command.
C17_SearchTags ==
    (last.op = "search" /\ ~Given(Val(last.ret).query) /\ Given(Val(last.ret).tags))
        => ToSet(Val(last.ret).results)
               = {commands[i] : i \in {k \in DOMAIN commands :
                                          PassesTags(commands[k], Val(Val(last.ret).tags))}}

\* a search for the tag "B" returned the one command of two that is tagged "b"
C17_Witness ==
    /\ last.op = "search"
    /\ Val(last.ret).query = None
    /\ Val(last.ret).tags = Some(<<<<"B">>>>)
    /\ Len(commands) = 2
    /\ Len(Val(last.ret).results) = 1
    /\ Val(last.ret).results[1].tags = <<<<"b">>>>

C18_Result ==
    last.op = "search" =>
        LET query == Val(last.ret).query
            tags == Val(last.ret).tags
            Passes(cmd) ==
                /\ Given(tags) => PassesTags(cmd, Val(tags))
                /\ Given(query) => PassesQuery(cmd, Val(query))
        IN  Val(last.ret).results = SelectSeq(commands, Passes)

C18_Step ==
    last'.op = "search" =>
        /\ commands' = commands
        /\ disk' = disk
        /\ last'.saved = 0

\* C18: search(query, tags) returns, in stored order, the commands that pass
\* the tag filter (when tags are given and not empty) and the query filter
\* (when a query is given and not empty: the query occurs, case ignored, in
\* the command text or in the description); with neither it returns the whole
\* collection; it changes no command and saves nothing.
C18_Search == [](C18_Result) /\ [][C18_Step]_vars

\* a search with a query and tags returned one command of two: the query
\* occurs in its description alone, in the other case
C18_Witness ==
    /\ last.op = "search"
    /\ Val(last.ret).query = Some(<<"l">>)
    /\ Val(last.ret).tags = Some(<<<<"a">>>>)
    /\ Len(commands) = 2
    /\ Len(Val(last.ret).results) = 1
    /\ Val(last.ret).results[1].command = <<"P">>

(* ----------------------------- tag counts ----------------------------- *)

\* every tag of every command
AllTags(cmds) == UNION {ToSet(cmds[i].tags) : i \in DOMAIN cmds}

\* C20: get_all_tags maps every tag of the collection to the number of
\* commands that carry it.
C20_TagCounts ==
    last.op = "get_all_tags" =>
        Val(last.ret) =
            [tag \in AllTags(commands) |->
                Cardinality({i \in DOMAIN commands : tag \in ToSet(commands[i].tags)})]

(* ------------------------------ usage, CLI ---------------------------- *)

\* the step raises the used_count of the command with this id
Counts(id) ==
    \E i \in DOMAIN commands, j \in DOMAIN commands' :
        /\ commands[i].id = id
        /\ commands'[j].id = id
        /\ commands'[j].used_count > commands[i].used_count

C16_Step ==
    \A id \in Ids :
        Counts(id) =>
            /\ last'.op \in {"handle_run", "handle_interactive"}
            /\ last'.cmd_id = id
            /\ Val(last'.ret).outcome \in {"succeeded", "shell"}

\* C16: in the flows of the CLI (run, dry run, show, interactive selection) a
\* command's used_count rises only in a step that ran the command in the
\* foreground with success or emitted it in shell mode.
C16_UsageOnlyOnExecution == [][C16_Step]_vars

(* ------------------------------ statistics ---------------------------- *)

\* the position of the command in the collection
Pos(cmd) == CHOOSE i \in DOMAIN commands : commands[i].id = cmd.id

\* x is listed before y: more used, or as much used and stored earlier
Before(x, y) ==
    \/ x.used_count > y.used_count
    \/ x.used_count = y.used_count /\ Pos(x) < Pos(y)

\* C19: get_stats returns as total the number of commands, as tags the set of
\* the tags of all commands, and as most_used the commands with used_count > 0
\* ordered by used_count descending, equal counts in stored order, cut after
\* the first 5; no command with used_count 0 is in it.
C19_Stats ==
    last.op = "get_stats" =>
        LET stats == Val(last.ret)
            most == stats.most_used
            used == {i \in DOMAIN commands : commands[i].used_count > 0}
        IN  /\ stats.total = Len(commands)
            /\ ToSet(stats.tags) = AllTags(commands)
            /\ Len(most) = (IF Cardinality(used) < 5 THEN Cardinality(used) ELSE 5)
            /\ \A k \in DOMAIN most : \E i \in used : most[k] = commands[i]
            /\ \A k, m \in DOMAIN most : k < m => Before(most[k], most[m])
            /\ \A i \in used :
                   (\A k \in DOMAIN most : most[k] # commands[i])
                       => \A k \in DOMAIN most : Before(most[k], commands[i])

\* statistics of six used commands: the last one, used twice, leads the list
\* of five, and a command used once is left out
C19_Witness ==
    /\ last.op = "get_stats"
    /\ Len(commands) = 6
    /\ \A i \in DOMAIN commands : commands[i].used_count > 0
    /\ commands[1].used_count = 1
    /\ commands[6].used_count = 2
    /\ Len(Val(last.ret).most_used) = 5
    /\ Val(last.ret).most_used[1] = commands[6]

(* =========================== C21 to C30 ================================ *)

\* the commands the file holds, as a process that starts now would load them
Persisted == load(disk).commands

\* C21: with two processes on one file and no lock, after a process saved
\* the file holds that process's whole collection; a command that only the
\* other process holds, whose save came first, is not in the file.
C21_LastSaveWins ==
    last.saved > 0 =>
        /\ Persisted = commands
        /\ \A k \in DOMAIN peer :
               peer[k] \notin ToSet(commands) => peer[k] \notin ToSet(Persisted)

\* both processes loaded the empty store, the one added "l", the other added
\* "p" and saved last: the file holds "p" alone
C21_Witness ==
    /\ last.saved > 0
    /\ Len(peer) = 1 /\ peer[1].id = 1 /\ peer[1].command = <<"l">>
    /\ Len(commands) = 1 /\ commands[1].id = 1 /\ commands[1].command = <<"p">>
    /\ Persisted = commands

RepositoryOps ==
    {"add", "edit", "get", "delete", "delete_multiple", "increment_usage",
     "search", "get_all_tags", "get_stats"}

\* C22: in one process, after every Repository operation returned or raised,
\* the file holds the in-memory collection.
C22_SnapshotEqualsMemory ==
    last.op \in RepositoryOps => Persisted = commands

\* the file is there and json.load cannot parse what it holds
Unparseable(file) == file.kind \in {"malformed", "undecodable"}

C23_LoadStep ==
    (last'.op = "load" /\ Unparseable(disk)) =>
        /\ last'.error = "ok"
        /\ last'.warning
        /\ proc' = "ready"
        /\ commands' = <<>>
        /\ disk' = disk

C23_SaveStep ==
    (Unparseable(disk) /\ last'.op \in RepositoryOps \cup {"load", "construct"}) =>
        disk' = (IF last'.saved > 0 THEN save(disk, commands') ELSE disk)

\* C23: load of a file that is there and unparseable returns the empty list
\* with a warning and no error and leaves the file as it is; the process
\* leaves the file as it is until its first save, which writes the in-memory
\* collection.
C23_CorruptStore == [][C23_LoadStep /\ C23_SaveStep]_vars

\* C24: load of an absent file, also of one removed after the storage was
\* constructed, raises nothing, creates the file with an empty collection
\* and returns the empty list.
C24_LoadAbsent ==
    [][(last'.op = "load" /\ disk = Absent) =>
           /\ last'.error = "ok"
           /\ proc' = "ready"
           /\ commands' = <<>>
           /\ disk' = Json(JArray(<<>>))]_vars

C25_Step ==
    (last'.op = "load" /\ disk = save(disk, commands)) => commands' = commands

\* C25: what save wrote, load in a new process reads back: the same commands
\* in the same order, equal in every field, alias and last_used_at absent or
\* set.
C25_RoundTrip ==
    /\ [](load(save(disk, commands)) =
             [commands |-> commands, error |-> "ok", warning |-> FALSE])
    /\ [][C25_Step]_vars

\* a new process loaded two commands: one with tags, alias and last_used_at,
\* one without
C25_Witness ==
    /\ last.op = "load"
    /\ proc = "ready"
    /\ Len(commands) = 2
    /\ \E i, j \in DOMAIN commands :
           /\ commands[i].alias # None
           /\ commands[i].last_used_at # None
           /\ commands[i].tags # <<>>
           /\ commands[j].alias = None
           /\ commands[j].last_used_at = None
    /\ disk = save(disk, commands)

(* ------------------------------ the selector --------------------------- *)

\* Browsing: the selector draws frames and reads keys
Browsing == tui.pc \in {"redraw", "getch"}

\* the rows of the list the last frame showed
VisibleRows == tui.list_height

\* C26: while the selector browses a list, current_idx is an index of the
\* list, and after each redraw offset <= current_idx < offset + visible rows.
C26_ScrollInvariant ==
    /\ Browsing => tui.current_idx \in 0 .. Len(tui.commands) - 1
    /\ tui.pc = "getch" =>
           /\ tui.offset <= tui.current_idx
           /\ tui.current_idx < tui.offset + VisibleRows

\* the list was scrolled down: the current row is the last of the window
C26_Witness ==
    /\ tui.pc = "getch"
    /\ tui.read
    /\ tui.offset > 0
    /\ tui.current_idx = tui.offset + VisibleRows - 1

\* a redraw step
Redrawn == tui.pc = "redraw" /\ tui'.pc = "getch"

Distance(a, b) == IF a > b THEN a - b ELSE b - a

C27_Step ==
    Redrawn =>
        LET rows == tui'.list_height
            i == tui.current_idx
            before == tui.offset
            after == tui'.offset
        IN  /\ (before <= i /\ i < before + rows) => after = before
            /\ i < before => after = i
            /\ i >= before + rows => after = i - rows + 1
            /\ \A o \in 0 .. MaxRows :
                   (o <= i /\ i < o + rows)
                       => Distance(after, before) <= Distance(o, before)

\* C27: a redraw leaves the offset alone if the current row is in the window,
\* sets it to current_idx if the row is above, to current_idx - rows + 1 if
\* it is below; no offset that shows the row is nearer to the old one.
C27_MinimalScroll == [][C27_Step]_vars

\* the list was scrolled up: the current row, not the first of the list, is
\* the first of the window
C27_Witness ==
    /\ tui.pc = "getch"
    /\ tui.read
    /\ tui.current_idx > 0
    /\ tui.offset = tui.current_idx

\* a step that read a key
Pressed(key) == tui.pc = "getch" /\ tui' # tui /\ tui'.key = key

\* the table of the navigation keys
Tabulated(key, i, len, rows) ==
    CASE key \in {"KEY_UP", "k"} -> Max(0, i - 1)
      [] key \in {"KEY_DOWN", "j"} -> Min(len - 1, i + 1)
      [] key = "KEY_PPAGE" -> Max(0, i - rows)
      [] key = "KEY_NPAGE" -> Min(len - 1, i + rows)
      [] key = "KEY_HOME" -> 0
      [] key = "KEY_END" -> len - 1

C28_Step ==
    \A key \in MoveKeys :
        Pressed(key) =>
            /\ tui'.current_idx =
                   Tabulated(key, tui.current_idx, Len(tui.commands), VisibleRows)
            /\ tui'.pc = "redraw"
            /\ tui'.result = None
            /\ tui'.commands = tui.commands

\* C28: in Browsing, up/k, down/j, page-up, page-down, home and end set
\* current_idx as tabulated, with the visible rows of the last frame, and the
\* selector stays in Browsing.
C28_NavigationKeys == [][C28_Step]_vars

\* page-up from a scrolled window took the current row to the top of the list
C28_Witness ==
    /\ tui.pc = "redraw"
    /\ tui.key = "KEY_PPAGE"
    /\ tui.current_idx = 0
    /\ tui.offset > 0

C29_Step ==
    /\ \A key \in EnterKeys :
           Pressed(key) =>
               /\ tui'.pc = "returned"
               /\ tui'.result = Some(tui.commands[tui.current_idx + 1].id)
    /\ \A key \in QuitKeys :
           Pressed(key) => (tui'.pc = "returned" /\ tui'.result = None)
    /\ tui.pc = "returned" =>
           \/ tui' = tui
           \/ tui' = interactive_select(tui'.commands)

\* C29: enter ends the selector with the id of the entry at current_idx, q
\* or escape end it with None; after that the selector reads no key.
C29_EnterAndQuit == [][C29_Step]_vars

\* enter on a row that is neither the first of the list nor of the window
C29_Witness ==
    /\ tui.pc = "returned"
    /\ tui.key \in EnterKeys
    /\ tui.offset > 0
    /\ tui.current_idx > tui.offset
    /\ tui.result = Some(tui.commands[tui.current_idx + 1].id)

\* C30: called with an empty list, the selector has returned None; it is not
\* in Browsing and has read no key.
C30_EmptyList ==
    (tui.pc # "idle" /\ tui.commands = <<>>) =>
        /\ tui.pc = "returned"
        /\ tui.result = None
        /\ ~tui.read

C30_Witness ==
    /\ tui.pc = "returned"
    /\ tui.commands = <<>>
    /\ tui.result = None

(* =========================== C31 to C40 ================================ *)

\* the first add of an empty store returns the command with id 1, not used
C31_Add ==
    (commands = <<>> /\ issued = {} /\ last'.op = "add" /\ last'.error = "ok") =>
        /\ Val(last'.ret).id = 1
        /\ Val(last'.ret).used_count = 0
        /\ commands' = <<Val(last'.ret)>>

\* a successful run of command 1, not used before, counts it once
C31_Run ==
    \A i \in DOMAIN commands :
        (/\ commands[i].id = 1
         /\ commands[i].used_count = 0
         /\ last'.op = "handle_run"
         /\ last'.cmd_id = 1
         /\ Val(last'.ret).outcome = "succeeded") =>
            /\ commands'[i].used_count = 1
            /\ commands'[i].last_used_at = Some(now)

\* after delete of id 1, get(1) finds nothing and the statistics count what
\* is left
C31_Delete ==
    /\ (last'.op = "delete" /\ last'.cmd_id = 1) => get(commands', 1) = 0
    /\ (last.op = "delete" /\ last.cmd_id = 1 /\ last'.op = "get" /\ last'.cmd_id = 1)
           => last'.ret = None
    /\ (last.op = "delete" /\ last'.op = "get_stats")
           => Val(last'.ret).total = Len(commands)

\* C31: from an empty store, the first add returns id 1 with used_count 0; a
\* successful run of id 1 leaves used_count 1 and last_used_at set; after the
\* delete of id 1, get(1) returns not-found and stats().total is 0.
C31_Lifecycle == [][C31_Add /\ C31_Run /\ C31_Delete]_vars

\* command 1 was added to the empty store and deleted again: no command is
\* left and the statistics count 0
C31_Witness ==
    /\ last.op = "get_stats"
    /\ Val(last.ret).total = 0
    /\ issued = {1}
    /\ commands = <<>>
    /\ Persisted = <<>>

C32_Step ==
    \A c \in CommandInputs, d \in Descriptions :
        (Add(c, d, <<>>, None) /\ ~Present(commands, c)) =>
            /\ Created
            /\ commands' = Append(commands, Newest)
            /\ Newest.id = (IF commands = <<>> THEN 1 ELSE MaxIdOf(commands) + 1)
            /\ Newest.used_count = 0
            /\ Newest.command = Strip(c)
            /\ last'.saved = 1
            /\ disk' = save(disk, commands')
            /\ last'.ret = Some(Newest)
            /\ last'.updated = Some(FALSE)

\* C32: an add of a command text that, stripped, is not in the collection
\* appends one command with the next id (1 for the empty collection),
\* used_count 0 and the stripped text, saves once, and returns that command
\* with updated = false.
C32_FreshAdd == [][C32_Step]_vars

(* ----------------------------- placeholders ---------------------------- *)

\* the text {{name}}
Token(name) == <<"{", "{">> \o name \o <<"}", "}">>

\* a placeholder of this name stands in the text at position i
StandsAt(text, name, i) ==
    /\ name # <<>>
    /\ \A k \in DOMAIN name : name[k] \in WordChars
    /\ i + Len(name) + 3 <= Len(text)
    /\ SubSeq(text, i, i + Len(name) + 3) = Token(name)

\* the names of the placeholders of the text
NamesIn(text) ==
    {SubSeq(text, i + 2, j) : i \in DOMAIN text, j \in DOMAIN text} \cap
        {name \in {SubSeq(text, i + 2, j) : i \in DOMAIN text, j \in DOMAIN text} :
            \E i \in DOMAIN text : StandsAt(text, name, i)}

\* where the placeholder of this name stands first
FirstAt(text, name) ==
    CHOOSE i \in DOMAIN text :
        /\ StandsAt(text, name, i)
        /\ \A k \in 1 .. i - 1 : ~StandsAt(text, name, k)

\* the text with every placeholder that has a value replaced by it, the
\* others and the text between them as they are
RECURSIVE Replaced(_, _)
Replaced(text, values) ==
    IF NamesIn(text) = {} THEN text
    ELSE LET name == CHOOSE n \in NamesIn(text) :
                         \A m \in NamesIn(text) : FirstAt(text, n) <= FirstAt(text, m)
             i == FirstAt(text, name)
             end == i + Len(name) + 3
         IN  SubSeq(text, 1, i - 1)
             \o (IF name \in DOMAIN values THEN values[name] ELSE Token(name))
             \o Replaced(SubSeq(text, end + 1, Len(text)), values)

C33_Find ==
    last.op = "find_placeholders" =>
        LET text == Val(last.ret).command
            names == Val(last.ret).names
        IN  /\ NoDuplicates(names)
            /\ ToSet(names) = NamesIn(text)
            /\ \A k, m \in DOMAIN names :
                   k < m => FirstAt(text, names[k]) < FirstAt(text, names[m])

C33_Substitute ==
    last.op = "substitute" =>
        LET text == Val(last.ret).command
            values == Val(last.ret).values
            result == Val(last.ret).result
        IN  /\ result = Replaced(text, values)
            /\ DOMAIN values = {} => result = text
            /\ NamesIn(text) \cap DOMAIN values = {} => result = text

\* C33: find_placeholders returns the names of the placeholders of the
\* command, each once, in the order they first stand in it; substitute
\* replaces the placeholders that have a value, leaves the others and the
\* text between them as they are, and returns the command for no values.
C33_Placeholders == C33_Find /\ C33_Substitute

\* a command with two placeholders, a value for the first alone
C33_Witness ==
    /\ last.op = "substitute"
    /\ Val(last.ret).command = Token(<<"x">>) \o Token(<<"y", "_", "1">>)
    /\ DOMAIN Val(last.ret).values = {<<"x">>}
    /\ Val(last.ret).result = <<"v">> \o Token(<<"y", "_", "1">>)

C34_Step(cmd_id, description, tags, alias) ==
    (/\ Edit(cmd_id, Some(description), tags, alias)
     /\ get(commands, cmd_id) # 0
     /\ last'.error = "ok") =>
        /\ commands'[get(commands, cmd_id)].description = description
        /\ last'.saved = 1

\* C34: edit(id, description=d) of a command that is there leaves it with the
\* description d, whatever d is supplied, the empty text too, and saves.
C34_EditSetsDescription ==
    [][\A cmd_id \in 1 .. 2, description \in EditDescriptions,
          tags \in Opt(EditTagInputs), alias \in Opt(EditAliases) :
           C34_Step(cmd_id, description, tags, alias)]_vars

\* some value that edit is given is not the value the command has
Changes(cmd, description, tags, alias) ==
    \/ IsSome(description) /\ Val(description) # cmd.description
    \/ IsSome(tags) /\ Val(tags) # cmd.tags
    \/ IsSome(alias) /\ alias # cmd.alias

C35_Step(cmd_id, description, tags, alias) ==
    (/\ Edit(cmd_id, description, tags, alias)
     /\ get(commands, cmd_id) # 0
     /\ last'.error = "ok") =>
        last'.saved = IF Changes(commands[get(commands, cmd_id)],
                                 description, tags, alias)
                      THEN 1 ELSE 0

\* C35: edit of a command that is there saves once when one of description,
\* tags and alias changes its value, and does not save when none does: nothing
\* is supplied, or every value supplied is the value the command has.
C35_EditSavesOnChange ==
    [][\A cmd_id \in 1 .. 2, description \in Opt(EditDescriptions),
          tags \in Opt(EditTagInputs), alias \in Opt(EditAliases) :
           C35_Step(cmd_id, description, tags, alias)]_vars

C36_Step(command, description, tags, alias) ==
    (Add(command, description, tags, alias) /\ Present(commands, command)) =>
        LET i == PositionOf(commands, command)
        IN  /\ last'.saved = 1 =>
                \/ commands'[i].tags # commands[i].tags
                \/ commands'[i].alias # commands[i].alias
            /\ (/\ ToSet(tags) \subseteq ToSet(commands[i].tags)
                /\ ~(IsSome(alias) /\ alias # commands[i].alias)) =>
                   /\ commands' = commands
                   /\ disk' = disk
                   /\ last'.saved = 0
                   /\ last'.updated = Some(FALSE)
                   /\ last'.merged_tags = Some(FALSE)

\* C36: an add of a command text that is there saves only if it changed the
\* tags or the alias of that command; when every tag given is there already
\* and no other alias is given, the commands and the file stay as they are,
\* nothing is saved and the flags returned are updated = false and
\* merged_tags = false.
C36_MergeSavesOnChange ==
    [][\A command \in TwoCommands, tags \in {<<>>, <<<<"b">>, <<"a">>>>},
          alias \in Opt({<<"x">>}) :
           C36_Step(command, <<"d">>, tags, alias)]_vars

\* an add gave a command its own alias and one of its two tags: nothing was saved
C36_Witness ==
    /\ last.op = "add"
    /\ last.updated = Some(FALSE)
    /\ last.merged_tags = Some(FALSE)
    /\ last.saved = 0
    /\ "alias" \in last.supplied
    /\ Val(last.ret).alias = Some(<<"x">>)
    /\ Len(Val(last.ret).tags) = 2

\* the texts among candidates that cmds has
Existing(cmds, candidates) ==
    {i \in DOMAIN candidates : Present(cmds, candidates[i])}

C37_Step ==
    (last'.op = "handle_import" /\ Val(last'.ret).outcome = "imported") =>
        LET r == Val(last'.ret)
        IN  /\ r.skipped = Cardinality(Existing(commands, r.candidates))
            /\ r.imported = Len(r.candidates) - r.skipped
            /\ r.imported = Len(commands') - Len(commands)

\* C37: an import counts a command read as imported exactly when its add made
\* a new command, and as skipped exactly when its text was there already; so
\* the number imported is the number of commands the import added.
C37_ImportCounts == [][C37_Step]_vars

\* the keys that end the selector
EndKeys == EnterKeys \cup QuitKeys

C38_Step ==
    /\ \A key \in Keys \ EndKeys :
           Pressed(key) =>
               /\ tui'.pc = "redraw"
               /\ tui'.commands = tui.commands
               /\ tui'.current_idx \in 0 .. Len(tui.commands) - 1
    /\ \A key \in EndKeys : Pressed(key) => tui'.pc = "returned"
    /\ (Browsing /\ tui'.pc \notin {"redraw", "getch"}) =>
           /\ tui.pc = "getch"
           /\ tui'.key \in EndKeys

\* C38: the selector leaves Browsing on enter, q or escape only. Any other
\* key, an unknown one too, leaves it in Browsing with current_idx an index of
\* the list, so keys without enter, q and escape never end it; the first of
\* enter, q and escape ends it, so it ends when such a key comes.
C38_LeavesOnEnterOrQuit ==
    /\ [][C38_Step]_vars
    /\ Browsing ~> tui.pc = "returned"

\* an unknown key was read on a row that is not the first: the selector browses on
C38_Witness ==
    /\ tui.pc = "redraw"
    /\ tui.key = "x"
    /\ tui.current_idx > 0

C39_Step ==
    (Redrawn /\ tui.list_height # 0 /\ tui'.list_height # tui.list_height) =>
        /\ 0 <= tui'.offset
        /\ tui'.offset <= tui'.current_idx
        /\ tui'.current_idx < tui'.offset + tui'.list_height
        /\ tui'.offset <= Len(tui'.commands) - 1

\* C39: when the height of the terminal, and with it the visible rows, has
\* changed since the last frame, the next redraw leaves
\* 0 <= offset <= current_idx < offset + visible rows, for the new visible
\* rows, and offset <= len - 1.
C39_Resize == [][C39_Step]_vars

\* the window of a scrolled list became larger: it reaches past the end of the
\* list, where no scrolling takes it
C39_Witness ==
    /\ tui.pc = "getch"
    /\ tui.offset > 0
    /\ tui.offset + VisibleRows > Len(tui.commands)

\* C40: after every redraw, whatever the height of the terminal, the current
\* row is one of the rows of the list that the frame drew.
C40_HighlightedIsDrawn ==
    tui.pc = "getch" =>
        /\ tui.offset <= tui.current_idx
        /\ tui.current_idx < tui.offset + tui.drawn

====
